---- MODULE Spec2Model ----
(***************************************************************************)
(* Model of the gphoto sync engine (src/gphoto/client.py), the delta       *)
(* parser (src/gphoto/db_update_parser.py) and the mirror store            *)
(* (src/gphoto/db.py).                                                     *)
(*                                                                         *)
(* Tokens are small integers: 0 stands for the empty string "", 1, 2, ...  *)
(* for "s1", "s2", ... (state tokens) or "p1", "p2", ... (page tokens).    *)
(* Media keys are 1..MaxKey; a record is represented by its content        *)
(* version, 0 meaning that the table has no row for the key.               *)
(***************************************************************************)
EXTENDS Integers, Sequences, FiniteSets, TLC

\* ------------------------------------------------------------------ bounds
MaxKey == 2
MaxVal == 2
MaxStateTok == 2
MaxPageTok == 2
MaxItems == 1
MaxDels == 2
MaxRef == 4
\* tokens the token service hands out
MaxToken == 2
\* requests of a token that are running at a time, one nested in the
\* forced refresh of the other
MaxDepth == 1
\* attempts and forced refreshes are counted up to these values
MaxAttempts == 6
MaxForced == 2
\* the counters of the progress task are counted up to this value
MaxCount == 3
\* candidates of a batch, worker counts
NumCands == 2
\* chunks of the largest file
MaxChunks == 4
MaxThreads == 2

Keys == 1..MaxKey
Vals == 1..MaxVal
StateToks == 0..MaxStateTok
PageToks == 0..MaxPageTok

\* row value of a media key that has no row in remote_media
NoRec == 0
\* Python None (an omitted keyword argument, a deletion entry without key)
None == -1
\* discriminant of a deletion entry that carries a media key
DelTypeMediaKey == 1
\* a discriminant the parser has no branch for (commented out in the source)
DelTypeOther == 4
DelTypes == {DelTypeMediaKey, DelTypeOther}
\* a deletion entry without the discriminant field: d["1"]["1"] raises KeyError
NoField == 0
\* the call raised an exception
Raise == -2

Range(s) == {s[i] : i \in 1..Len(s)}

SeqsUpTo(S, n) == UNION {[1..m -> S] : m \in 0..n}

\* ------------------------------------------------------- mirror store (db.py)
EmptyMirror == [k \in Keys |-> NoRec]

Mirrors == [Keys -> {NoRec} \cup Vals]

MediaItems == [media_key : Keys, content_version : Vals]

\* an entry without discriminant has no other field that is read
DelEntries ==
    [type : DelTypes, key : Keys] \cup {[type |-> NoField, key |-> 1]}

\* update with a conflict clause that adds to the stored content instead of
\* replacing it
RECURSIVE update_accumulate(_, _)
update_accumulate(m, items) ==
    IF items = <<>> THEN m
    ELSE LET k == Head(items).media_key
             v == Head(items).content_version
         IN  update_accumulate(
                [m EXCEPT ![k] = IF @ = NoRec THEN v ELSE ((@ + v - 1) % MaxVal) + 1],
                Tail(items))

\* AsyncStorage.update: INSERT ... ON CONFLICT (media_key) DO UPDATE, one
\* statement per item, in list order.
RECURSIVE update(_, _)
update(m, items) ==
    IF items = <<>> THEN m
    ELSE update([m EXCEPT ![Head(items).media_key] = Head(items).content_version],
                Tail(items))

\* a delete that removes nothing
delete_nothing(m, media_keys) == m

\* a delete that removes only the first key of the list
delete_first_only(m, media_keys) ==
    IF media_keys = <<>> THEN m
    ELSE [m EXCEPT ![Head(media_keys)] = NoRec]

\* AsyncStorage.delete: DELETE ... WHERE media_key = ANY(keys).
delete(m, media_keys) ==
    IF media_keys = <<>> THEN m
    ELSE [k \in Keys |-> IF k \in Range(media_keys) THEN NoRec ELSE m[k]]

\* the row of table state for this user before get_init_state created it
NoRow == [exists |-> FALSE, state_token |-> 0, page_token |-> 0,
          init_complete |-> FALSE]

\* AsyncStorage.get_init_state: inserts ('', '', FALSE) when there is no row.
get_init_state_row(r) ==
    IF r.exists THEN r
    ELSE [exists |-> TRUE, state_token |-> 0, page_token |-> 0,
          init_complete |-> FALSE]

get_init_state(r) == IF r.exists THEN r.init_complete ELSE FALSE

\* AsyncStorage.set_init_state: UPDATE state SET init_complete = $1.
set_init_state(r, b) == IF r.exists THEN [r EXCEPT !.init_complete = b] ELSE r

\* AsyncStorage.get_state_tokens
get_state_tokens(r) ==
    IF r.exists THEN <<r.state_token, r.page_token>> ELSE <<0, 0>>

\* update_state_tokens that writes '' for an argument that was left out
update_state_tokens_overwrite(r, state_token, page_token) ==
    IF ~r.exists THEN r
    ELSE [r EXCEPT
            !.state_token = IF state_token # None THEN state_token ELSE 0,
            !.page_token = IF page_token # None THEN page_token ELSE 0]

\* update_state_tokens that never writes the page token
update_state_tokens_state_only(r, state_token, page_token) ==
    IF ~r.exists THEN r
    ELSE [r EXCEPT
            !.state_token = IF state_token # None THEN state_token ELSE @]

\* update_state_tokens that never writes the state token
update_state_tokens_page_only(r, state_token, page_token) ==
    IF ~r.exists THEN r
    ELSE [r EXCEPT
            !.page_token = IF page_token # None THEN page_token ELSE @]

\* AsyncStorage.update_state_tokens: only the arguments that are not None
\* are written; an UPDATE of a missing row changes nothing.
update_state_tokens(r, state_token, page_token) ==
    IF ~r.exists THEN r
    ELSE [r EXCEPT
            !.state_token = IF state_token # None THEN state_token ELSE @,
            !.page_token = IF page_token # None THEN page_token ELSE @]

\* --------------------------------------------- parser (db_update_parser.py)
\* _parse_deletion_item that takes a media key from every discriminant
parse_deletion_item_any_type(d) ==
    IF d.type = NoField THEN Raise ELSE d.key

\* _parse_deletion_item
parse_deletion_item(d) ==
    IF d.type = NoField THEN Raise
    ELSE IF d.type = DelTypeMediaKey THEN d.key
    ELSE None

\* the loop of parse_db_update over the deletion entries ("9")
RECURSIVE parse_deletions(_)
parse_deletions(ds) ==
    IF ds = <<>> THEN <<>>
    ELSE LET media_key == parse_deletion_item(Head(ds))
         IN  IF media_key # None /\ media_key # 0
             THEN <<media_key>> \o parse_deletions(Tail(ds))
             ELSE parse_deletions(Tail(ds))

\* _parse_media_item, reduced to the key and the content of the record
parse_media_item(d) ==
    [media_key |-> d.k, content_version |-> d.v]

RECURSIVE parse_media_items(_)
parse_media_items(ds) ==
    IF ds = <<>> THEN <<>>
    ELSE <<parse_media_item(Head(ds))>> \o parse_media_items(Tail(ds))

\* parse_db_update raises when parsing one of its entries raises
parse_raises(data) ==
    \E i \in 1..Len(data.f9) : parse_deletion_item(data.f9[i]) = Raise

\* parse_db_update: (state_token, next_page_token, remote_media,
\* media_keys_to_delete)
parse_db_update(data) ==
    [state_token |-> data.f6,
     next_page_token |-> data.f1,
     remote_media |-> parse_media_items(data.f2),
     media_keys_to_delete |-> parse_deletions(data.f9)]

\* raw items and deletion entries of a response
RawItems == [k : Keys, v : Vals]

RawResponses(stoks, ptoks, itemSeqs, delSeqs) ==
    [f6 : stoks, f1 : ptoks, f2 : itemSeqs, f9 : delSeqs]

\* the store block with the two statements in the other order
apply_page_delete_first(m, p) ==
    update(delete(m, p.media_keys_to_delete), p.remote_media)

\* the store block of one response: storage.update(remote_media), then
\* storage.delete(media_keys_to_delete)
apply_page(m, p) ==
    delete(update(m, p.remote_media), p.media_keys_to_delete)

NoParsed == [state_token |-> 0, next_page_token |-> 0,
             remote_media |-> <<>>, media_keys_to_delete |-> <<>>]

\* ------------------------------------------------ remote library (scripted)
\* The remote answers a top-level fetch as a function of the state token of
\* the request and a page fetch as a function of the page token.
KeyA == 1
KeyB == 2

RawA == [k |-> KeyA, v |-> 1]
RawB == [k |-> KeyB, v |-> 1]

\* answers of the remote to get_library_state(s)
TopChoices(s) ==
    IF s = 0
    THEN RawResponses({1}, {0, 1}, {<<RawA>>}, {<<>>})
    ELSE IF s = 1
    THEN RawResponses({0, 1, 2}, {0, 1}, {<<>>},
                      {<<>>, <<[type |-> DelTypeMediaKey, key |-> KeyA]>>})
    ELSE RawResponses({s}, {0}, {<<>>}, {<<>>})

\* answers of the remote to get_library_page(p) / get_library_page_init(p);
\* the token of a following page is larger, so a listing ends.
PageChoices(p) ==
    IF p = 1
    THEN RawResponses({0}, {0} \cup {q \in PageToks : q = p + 1}, {<<RawB>>},
                      {<<[type |-> DelTypeMediaKey, key |-> KeyA]>>,
                       <<[type |-> DelTypeOther, key |-> KeyA]>>})
    ELSE RawResponses({0}, {0} \cup {q \in PageToks : q = p + 1}, {<<RawA>>},
                      {<<>>})

NoReq == [kind |-> "none", tok |-> 0]

VARIABLES
    \* mirror store
    mirror,          \* table remote_media: media key -> content (NoRec: no row)
    row,             \* the row of table state of this user
    \* the remote library
    remoteTop,       \* state token -> response of get_library_state
    remotePage,      \* page token -> response of get_library_page(_init)
    \* the running update_cache
    pc,              \* position in update_cache ("idle": not running)
    phase,           \* which pagination loop is running
    state_token,     \* local state_token of _cache_init / _cache_update
    next_page_token, \* local next_page_token
    parsed,          \* result of the last parse_db_update
    shutdown,        \* shutdown_event.is_set()
    \* history variables
    last,            \* how the last update_cache ended
    startPageTok,    \* stored page token when the cycle started
    firstFetch,      \* first request the cycle sent to the remote
    failedReq,       \* request whose fetch or decode failed in this cycle
    retryReq,        \* request that failed in the previous cycle
    interrupted,     \* "no", or how this cycle was interrupted: "boundary"
                     \* (between two responses) or "midpage" (between the
                     \* store operations of one response)
    rerun,           \* the previous cycle was interrupted at a boundary
    startedFresh,    \* the cycle started from the never-synchronized state
    appliedCur,      \* cursor of the last response that was applied in full
    initListed,      \* the initial listing reached a response without token
    applied,         \* kind of the response whose application just ended
    observed,        \* the running cycle found shutdown_event set
    \* one delta applied to the store on its own
    spc,             \* "ready", "applied", "reapplied", "failed"
    sraw,            \* the delta that was received last
    sbefore,         \* the mirror before the delta was applied
    sonce,           \* the mirror after the delta was applied once
    sprevIns,        \* media keys of the items of the delta applied before
    \* the remote gateway (api.py) serving one caller
    token,           \* Api.token, the credential cell (NoToken: None)
    hdr,             \* Authorization header of the request being made
    gpc,             \* position of the caller of the gateway
    stack,           \* frames of _request that are running, innermost last
    attempts,        \* attempts of the running operation sent to the service
    n5xx,            \* responses 500/503 to attempts of the running operation
    lastStatus,      \* status of the response received last
    returned,        \* status of the response _request returned to the
                     \* operation (0: none)
    forced,          \* forced token refreshes since the caller started
    scen,            \* the responses since the caller started, classified
    sentLast,        \* the attempt sent last to the service
    tokenWriter,     \* call site of the get_auth_token that wrote token last
    \* one batch of upload_monitor (client.py)
    threads,         \* GPhoto.threads, the worker count
    sem,             \* value of the semaphore upload_threads
    cand,            \* per candidate: position of its _upload_file task,
                     \* media key its lookup found, media key it returned
    calls,           \* per candidate: gateway operations it has called
    doneQ,           \* finished tasks in completion order, not yet awaited
    mpc,             \* position of upload_monitor
    results,         \* results of the batch: candidate -> media key (0: none)
    upload_error_count,
    cycles,          \* update_cache calls made by upload_monitor after a batch
    atCancel,        \* per candidate: its position when shutdown_event was
                     \* set ("unset": the event is clear)
    floc,            \* per candidate: the directory its file is in
                     \* ("gphotos": the scanned one, "scan", "error")
    chash,           \* per candidate: the SHA-1 of its content
    lib,             \* the remote library: hash -> media key of the item with
                     \* that content (0: none, Untracked: not known)
    \* table remote_media with the columns of the duplicate query
    dtable,          \* media key -> (file_name, size_bytes, dedup_key) or NoMedia
    dres,            \* rows get_duplicate_files_by_name_and_size returned:
                     \* dedup key -> number of rows
    dpc,             \* "stale": the table changed since the last query
    \* callers of update_cache for the same user
    wpc,             \* per caller: position in its update_cache
    wst,             \* per caller: local state_token
    wparsed,         \* per caller: result of its last parse_db_update
    \* the progress task of update_cache and its fields
    cpc,             \* position of update_cache
    has_task,        \* progress.task_ids is not empty
    updated,         \* task.fields["updated"]
    deleted,         \* task.fields["deleted"]
    exposed,         \* the counters the last cycle logged
    sinceUpdated,    \* items upserted since the last cycle that completed
    sinceDeleted,    \* keys deleted since the last cycle that completed
    \* table remote_media with the columns of AsyncStorage.search
    qtable,          \* media key -> (size_bytes, utc_timestamp, file_name)
                     \* or NoFound
    qargs,           \* the keyword arguments of the running search
    qres,            \* how search ended ("pending": no search was made,
                     \* "row", "none", "raise") and the media key of the row
    \* one file that _upload_file hashes and then streams
    hpc,             \* "idle", "hashing", "hashed", "streaming", "done",
                     \* "cancelled"
    hlen,            \* chunks the file has
    hpos,            \* chunks the running loop has read
    hafter,          \* chunks the running loop has read since shutdown_event
                     \* was set
    \* table state with the rows of two users
    utable,          \* user_name -> row of table state
    upc              \* per user: position of the update_cache of its GPhoto

storeVars == <<mirror, row>>
remoteVars == <<remoteTop, remotePage>>
localVars == <<pc, phase, state_token, next_page_token, parsed>>
histVars == <<last, startPageTok, firstFetch, failedReq, retryReq,
              interrupted, rerun, startedFresh, appliedCur, initListed,
              applied, observed>>
applyVars == <<spc, sraw, sbefore, sonce, sprevIns>>
gatewayVars == <<token, hdr, gpc, stack, attempts, n5xx, lastStatus, returned,
                 forced, scen, sentLast, tokenWriter>>
uploadVars == <<threads, sem, cand, calls, doneQ, mpc, results,
                upload_error_count, cycles, atCancel, floc, chash, lib>>
dupVars == <<dtable, dres, dpc>>
writerVars == <<wpc, wst, wparsed>>
counterVars == <<cpc, has_task, updated, deleted, exposed, sinceUpdated,
                 sinceDeleted>>
searchVars == <<qtable, qargs, qres>>
chunkVars == <<hpc, hlen, hpos, hafter>>
userVars == <<utable, upc>>
extVars == <<searchVars, chunkVars, userVars>>
auxVars == <<dupVars, writerVars, counterVars, extVars>>
\* what the sync engine leaves alone
otherVars == <<applyVars, gatewayVars, uploadVars, auxVars>>
\* what the gateway and the upload batch leave alone
syncVarsNoAux == <<storeVars, remoteVars, localVars, histVars, applyVars>>
syncVars == <<syncVarsNoAux, auxVars>>
vars == <<storeVars, remoteVars, localVars, shutdown, histVars, applyVars,
          gatewayVars, uploadVars, auxVars>>

NoDelta == [f6 |-> 0, f1 |-> 0, f2 |-> <<>>, f9 |-> <<>>]

ApplyIdle ==
    /\ spc = "ready"
    /\ sraw = NoDelta
    /\ sbefore = EmptyMirror
    /\ sonce = EmptyMirror
    /\ sprevIns = {}

\* Api.__init__: self.token = None; no request is running
NoToken == 0
Tokens == 1..MaxToken
NoSent == [hdr |-> NoToken, cell |-> NoToken, wrapped |-> TRUE, any |-> FALSE]

GatewayIdle ==
    /\ token = NoToken
    /\ hdr = NoToken
    /\ gpc = "idle"
    /\ stack = <<>>
    /\ attempts = 0
    /\ n5xx = 0
    /\ lastStatus = 0
    /\ returned = 0
    /\ forced = 0
    /\ scen = "clean"
    /\ sentLast = NoSent
    /\ tokenWriter = "none"

Cands == 1..NumCands

NoTask == [pc |-> "none", found |-> 0, key |-> 0]

Writers == {"monitor", "upload_monitor"}

FileNames == {"a.jpg", "b.jpg"}
Sizes == {10, 20}
DedupKeys == {"d1", "d2"}
NoMedia == [file_name |-> "", size_bytes |-> 0, dedup_key |-> ""]
MediaRows == [file_name : FileNames, size_bytes : Sizes, dedup_key : DedupKeys]

NoCount == [updated |-> 0, deleted |-> 0]

\* nothing queried, no caller in update_cache, no progress task
AuxIdle ==
    /\ dtable = [k \in Keys |-> NoMedia]
    /\ dres = [d \in DedupKeys |-> 0]
    /\ dpc = "stale"
    /\ wpc = [w \in Writers |-> "idle"]
    /\ wst = [w \in Writers |-> 0]
    /\ wparsed = [w \in Writers |-> NoParsed]
    /\ cpc = "idle"
    /\ has_task = FALSE
    /\ updated = 0
    /\ deleted = 0
    /\ exposed = NoCount
    /\ sinceUpdated = 0
    /\ sinceDeleted = 0

\* Python None where the argument is a string
NoneStr == "<None>"
\* utc_timestamp of the stored records, in milliseconds
StoredMs == {0, 1000, 2999}
NoFound == [size_bytes |-> 0, utc_timestamp |-> 0, file_name |-> ""]
FoundRows == [size_bytes : Sizes, utc_timestamp : StoredMs, file_name : FileNames]
\* the keyword arguments of search: None, a falsy value or a value to look for
SearchArgs == [size_bytes : {None, 0, 10}, utc_timestamp : {None, 0, 1},
               file_name : {NoneStr, "", "a.jpg"}, parsed_name : {NoneStr, "a"}]
NoArgs == [size_bytes |-> None, utc_timestamp |-> None, file_name |-> NoneStr,
           parsed_name |-> NoneStr]

NoResult == [kind |-> "pending", key |-> 0]

\* no search was made
SearchIdle ==
    /\ qtable = [k \in Keys |-> NoFound]
    /\ qargs = NoArgs
    /\ qres = NoResult

\* no file is open
ChunkIdle ==
    /\ hpc = "idle"
    /\ hlen = 0
    /\ hpos = 0
    /\ hafter = 0

Users == {"x", "y"}

\* no user has a row, no update_cache is running
UsersIdle ==
    /\ utable = [u \in Users |-> NoRow]
    /\ upc = [u \in Users |-> "idle"]

ExtIdle ==
    /\ SearchIdle
    /\ ChunkIdle
    /\ UsersIdle

\* the content hashes of the candidates
Hashes == 1..NumCands
\* the library was filled by other clients: what a lookup finds is not known
Untracked == -3

\* upload_monitor before it has scanned the directory
UploadIdle ==
    /\ sem = 0
    /\ cand = [c \in Cands |-> NoTask]
    /\ calls = [c \in Cands |-> {}]
    /\ doneQ = <<>>
    /\ mpc = "scan"
    /\ results = [c \in Cands |-> 0]
    /\ upload_error_count = 0
    /\ cycles = 0
    /\ atCancel = [c \in Cands |-> "unset"]
    /\ floc = [c \in Cands |-> "gphotos"]

\* every file has a content of its own, and the library is not tracked
LibIdle ==
    /\ chash = [c \in Cands |-> c]
    /\ lib = [h \in Hashes |-> Untracked]

Init ==
    /\ mirror = EmptyMirror
    /\ row = NoRow
    /\ remoteTop \in {f \in [StateToks -> UNION {TopChoices(s) : s \in StateToks}] :
                        \A s \in StateToks : f[s] \in TopChoices(s)}
    /\ remotePage \in {f \in [1..MaxPageTok -> UNION {PageChoices(p) : p \in 1..MaxPageTok}] :
                        \A p \in 1..MaxPageTok : f[p] \in PageChoices(p)}
    /\ pc = "idle"
    /\ phase = "none"
    /\ state_token = 0
    /\ next_page_token = 0
    /\ parsed = NoParsed
    /\ shutdown = FALSE
    /\ last = "none"
    /\ startPageTok = 0
    /\ firstFetch = NoReq
    /\ failedReq = NoReq
    /\ retryReq = NoReq
    /\ interrupted = "no"
    /\ rerun = FALSE
    /\ startedFresh = FALSE
    /\ appliedCur = <<0, 0>>
    /\ initListed = FALSE
    /\ applied = "none"
    /\ observed = FALSE
    /\ ApplyIdle
    /\ GatewayIdle
    /\ threads = 1
    /\ UploadIdle
    /\ LibIdle
    /\ AuxIdle
    /\ ExtIdle

\* ----------------------------------------------- sync engine (client.py)
InTry ==
    \/ pc \in {"upd_tokens", "upd_update", "upd_delete"}
    \/ phase = "upd_pages"

\* update_cache returns or raises: the locals are gone
EndCycle(outcome) ==
    /\ pc' = "idle"
    /\ phase' = "none"
    /\ state_token' = 0
    /\ next_page_token' = 0
    /\ parsed' = NoParsed
    /\ last' = outcome

\* the first request of a cycle is recorded, a request ends the reading of
\* the former response
NoteFetch(kind, tok) ==
    /\ firstFetch' = IF firstFetch = NoReq THEN [kind |-> kind, tok |-> tok]
                     ELSE firstFetch
    /\ applied' = "none"

\* update_cache is called (monitor, upload_monitor)
StartCycle ==
    /\ pc = "idle"
    /\ pc' = "get_init_state"
    /\ startPageTok' = get_state_tokens(row)[2]
    /\ firstFetch' = NoReq
    /\ retryReq' = failedReq
    /\ failedReq' = NoReq
    /\ rerun' = (interrupted = "boundary")
    /\ interrupted' = IF shutdown THEN "boundary" ELSE "no"
    /\ startedFresh' = (mirror = EmptyMirror /\ get_state_tokens(row) = <<0, 0>>
                        /\ ~get_init_state(row))
    /\ applied' = "none"
    /\ last' = "running"
    /\ observed' = FALSE
    /\ UNCHANGED <<storeVars, remoteVars, phase, state_token, next_page_token,
                   parsed, shutdown, appliedCur, initListed>>
    /\ UNCHANGED otherVars

\* update_cache: storage.get_init_state() and the branch on it
GetInitState ==
    /\ pc = "get_init_state"
    /\ row' = get_init_state_row(row)
    /\ pc' = IF get_init_state(row) THEN "upd_get_tokens" ELSE "init_get_tokens"
    /\ UNCHANGED <<mirror, remoteVars, phase, state_token, next_page_token,
                   parsed, shutdown, histVars>>
    /\ UNCHANGED otherVars

\* _cache_init: storage.get_state_tokens() and the resumption branch
InitGetTokens ==
    /\ pc = "init_get_tokens"
    /\ state_token' = get_state_tokens(row)[1]
    /\ next_page_token' = get_state_tokens(row)[2]
    /\ IF next_page_token' # 0
       THEN pc' = "loop" /\ phase' = "resume"
       ELSE pc' = "init_fetch" /\ phase' = "none"
    /\ UNCHANGED <<storeVars, remoteVars, parsed, shutdown, histVars>>
    /\ UNCHANGED otherVars

\* the statement after a pagination loop
AfterLoop(ph) ==
    IF ph = "resume" THEN "init_fetch"
    ELSE IF ph = "init_pages" THEN "set_init_state"
    ELSE "idle"

\* _process_pages / _process_pages_init: the loop condition finds the
\* shutdown event set
LoopShutdown ==
    /\ pc = "loop"
    /\ shutdown
    /\ interrupted' = "boundary"
    /\ observed' = TRUE
    /\ IF AfterLoop(phase) = "idle"
       THEN EndCycle("done")
       ELSE /\ pc' = AfterLoop(phase)
            /\ phase' = "none"
            /\ UNCHANGED <<state_token, next_page_token, parsed, last>>
    /\ UNCHANGED <<storeVars, remoteVars, shutdown, startPageTok, firstFetch,
                   failedReq, retryReq, rerun, startedFresh, appliedCur,
                   initListed, applied>>
    /\ UNCHANGED otherVars

\* _process_pages / _process_pages_init: a page is fetched and parsed
LoopFetch ==
    /\ pc = "loop"
    /\ ~shutdown
    /\ parsed' = parse_db_update(remotePage[next_page_token])
    /\ next_page_token' = parsed'.next_page_token
    /\ pc' = "page_tokens"
    /\ NoteFetch("page", next_page_token)
    /\ UNCHANGED <<storeVars, remoteVars, phase, state_token, shutdown, last,
                   startPageTok, failedReq, retryReq, interrupted, rerun,
                   startedFresh, observed, appliedCur, initListed>>
    /\ UNCHANGED otherVars

\* storage.update_state_tokens(page_token=next_page_token)
PageTokens ==
    /\ pc = "page_tokens"
    /\ row' = update_state_tokens(row, None, next_page_token)
    /\ pc' = "page_update"
    /\ UNCHANGED <<mirror, remoteVars, phase, state_token, next_page_token,
                   parsed, shutdown, histVars>>
    /\ UNCHANGED otherVars

\* storage.update(remote_media)
PageUpdate ==
    /\ pc = "page_update"
    /\ mirror' = update(mirror, parsed.remote_media)
    /\ pc' = "page_delete"
    /\ UNCHANGED <<row, remoteVars, phase, state_token, next_page_token,
                   parsed, shutdown, histVars>>
    /\ UNCHANGED otherVars

\* storage.delete(media_keys_to_delete), then the break or the next turn
PageDelete ==
    /\ pc = "page_delete"
    /\ mirror' = delete(mirror, parsed.media_keys_to_delete)
    /\ appliedCur' = <<appliedCur[1], next_page_token>>
    /\ applied' = "page"
    /\ initListed' = (initListed \/ (phase = "init_pages" /\ next_page_token = 0))
    /\ IF next_page_token # 0
       THEN /\ pc' = "loop"
            /\ UNCHANGED <<phase, state_token, next_page_token, parsed, last>>
       ELSE IF AfterLoop(phase) = "idle"
       THEN EndCycle("done")
       ELSE /\ pc' = AfterLoop(phase)
            /\ phase' = "none"
            /\ UNCHANGED <<state_token, next_page_token, parsed, last>>
    /\ UNCHANGED <<row, remoteVars, shutdown, startPageTok, firstFetch,
                   failedReq, retryReq, interrupted, rerun, startedFresh, observed>>
    /\ UNCHANGED otherVars

\* _cache_init: get_library_state(state_token) and parse_db_update
InitFetch ==
    /\ pc = "init_fetch"
    /\ parsed' = parse_db_update(remoteTop[state_token])
    /\ state_token' = parsed'.state_token
    /\ next_page_token' = parsed'.next_page_token
    /\ pc' = "init_tokens"
    /\ NoteFetch("top", state_token)
    /\ UNCHANGED <<storeVars, remoteVars, phase, shutdown, last, startPageTok,
                   failedReq, retryReq, interrupted, rerun, startedFresh, observed,
                   appliedCur, initListed>>
    /\ UNCHANGED otherVars

\* _cache_init: storage.update_state_tokens(state_token, next_page_token)
InitTokens ==
    /\ pc = "init_tokens"
    /\ row' = update_state_tokens(row, state_token, next_page_token)
    /\ pc' = "init_update"
    /\ UNCHANGED <<mirror, remoteVars, phase, state_token, next_page_token,
                   parsed, shutdown, histVars>>
    /\ UNCHANGED otherVars

\* _cache_init: storage.update(remote_media); the deletions of the response
\* are not used; then the pagination branch
InitUpdate ==
    /\ pc = "init_update"
    /\ mirror' = update(mirror, parsed.remote_media)
    /\ appliedCur' = <<state_token, next_page_token>>
    /\ applied' = "init_top"
    /\ initListed' = (initListed \/ next_page_token = 0)
    /\ IF next_page_token # 0
       THEN pc' = "loop" /\ phase' = "init_pages"
       ELSE pc' = "set_init_state" /\ phase' = "none"
    /\ UNCHANGED <<row, remoteVars, state_token, next_page_token, parsed,
                   shutdown, last, startPageTok, firstFetch, failedReq,
                   retryReq, interrupted, rerun, startedFresh, observed>>
    /\ UNCHANGED otherVars

\* update_cache: storage.set_init_state(1) after _cache_init returned
SetInitState ==
    /\ pc = "set_init_state"
    /\ row' = set_init_state(row, TRUE)
    /\ pc' = "upd_get_tokens"
    /\ UNCHANGED <<mirror, remoteVars, phase, state_token, next_page_token,
                   parsed, shutdown, histVars>>
    /\ UNCHANGED otherVars

\* _cache_update: state_token, _ = storage.get_state_tokens()
UpdGetTokens ==
    /\ pc = "upd_get_tokens"
    /\ state_token' = get_state_tokens(row)[1]
    /\ pc' = "upd_fetch"
    /\ UNCHANGED <<storeVars, remoteVars, phase, next_page_token, parsed,
                   shutdown, histVars>>
    /\ UNCHANGED otherVars

\* _cache_update: get_library_state(state_token) and parse_db_update
UpdFetch ==
    /\ pc = "upd_fetch"
    /\ parsed' = parse_db_update(remoteTop[state_token])
    /\ next_page_token' = parsed'.next_page_token
    /\ pc' = "upd_tokens"
    /\ NoteFetch("top", state_token)
    /\ UNCHANGED <<storeVars, remoteVars, phase, state_token, shutdown, last,
                   startPageTok, failedReq, retryReq, interrupted, rerun,
                   startedFresh, observed, appliedCur, initListed>>
    /\ UNCHANGED otherVars

\* _cache_update: storage.update_state_tokens(next_state_token, next_page_token)
UpdTokens ==
    /\ pc = "upd_tokens"
    /\ row' = update_state_tokens(row, parsed.state_token, next_page_token)
    /\ pc' = "upd_update"
    /\ UNCHANGED <<mirror, remoteVars, phase, state_token, next_page_token,
                   parsed, shutdown, histVars>>
    /\ UNCHANGED otherVars

\* _cache_update: storage.update(remote_media)
UpdUpdate ==
    /\ pc = "upd_update"
    /\ mirror' = update(mirror, parsed.remote_media)
    /\ pc' = "upd_delete"
    /\ UNCHANGED <<row, remoteVars, phase, state_token, next_page_token,
                   parsed, shutdown, histVars>>
    /\ UNCHANGED otherVars

\* _cache_update: storage.delete(media_keys_to_delete), then the pagination
\* branch with the state token the cycle started with
UpdDelete ==
    /\ pc = "upd_delete"
    /\ mirror' = delete(mirror, parsed.media_keys_to_delete)
    /\ appliedCur' = <<parsed.state_token, next_page_token>>
    /\ applied' = "upd_top"
    /\ IF next_page_token # 0
       THEN /\ pc' = "loop"
            /\ phase' = "upd_pages"
            /\ UNCHANGED <<state_token, next_page_token, parsed, last>>
       ELSE EndCycle("done")
    /\ UNCHANGED <<row, remoteVars, shutdown, startPageTok, firstFetch,
                   failedReq, retryReq, interrupted, rerun, startedFresh, observed,
                   initListed>>
    /\ UNCHANGED otherVars

\* A request to the remote fails (transport) or its response does not parse
\* (decode). In _cache_init and its loop the exception leaves update_cache;
\* in _cache_update the call get_library_state is outside the try, the parse
\* and _process_pages are inside and the except clause passes.
FetchFail(kind) ==
    /\ \/ pc \in {"init_fetch", "upd_fetch"}
       \/ pc = "loop" /\ ~shutdown
    /\ failedReq' = IF pc = "loop" THEN [kind |-> "page", tok |-> next_page_token]
                    ELSE [kind |-> "top", tok |-> state_token]
    /\ firstFetch' = IF firstFetch = NoReq THEN failedReq' ELSE firstFetch
    /\ applied' = "none"
    /\ interrupted' = "boundary"
    /\ IF (pc = "upd_fetch" /\ kind = "decode") \/ (pc = "loop" /\ phase = "upd_pages")
       THEN EndCycle("done")
       ELSE EndCycle("aborted")
    /\ UNCHANGED <<storeVars, remoteVars, shutdown, startPageTok, retryReq,
                   rerun, startedFresh, observed, appliedCur, initListed>>
    /\ UNCHANGED otherVars

StorePcs == {"get_init_state", "init_get_tokens", "page_tokens", "page_update",
             "page_delete", "init_tokens", "init_update", "set_init_state",
             "upd_get_tokens", "upd_tokens", "upd_update", "upd_delete"}

\* the store operations that apply one response
ApplyPcs == {"page_tokens", "page_update", "page_delete", "init_tokens",
             "init_update", "upd_tokens", "upd_update", "upd_delete"}

\* A storage call raises (the store is unavailable): the statement has no
\* effect; inside the try of _cache_update the except clause passes.
StoreFail ==
    /\ pc \in StorePcs
    /\ interrupted' = IF pc \in ApplyPcs THEN "midpage" ELSE "boundary"
    /\ IF InTry THEN EndCycle("done") ELSE EndCycle("aborted")
    /\ UNCHANGED <<storeVars, remoteVars, shutdown, startPageTok, firstFetch,
                   failedReq, retryReq, rerun, startedFresh, observed, appliedCur,
                   initListed, applied>>
    /\ UNCHANGED otherVars

\* the process dies between two steps of update_cache
Crash ==
    /\ pc # "idle"
    /\ interrupted' = IF pc \in ApplyPcs THEN "midpage" ELSE "boundary"
    /\ EndCycle("crashed")
    /\ UNCHANGED <<storeVars, remoteVars, shutdown, startPageTok, firstFetch,
                   failedReq, retryReq, rerun, startedFresh, observed, appliedCur,
                   initListed, applied>>
    /\ UNCHANGED otherVars

\* the shutdown event is set
Cancel ==
    /\ ~shutdown
    /\ shutdown' = TRUE
    /\ UNCHANGED <<storeVars, remoteVars, localVars, histVars>>
    /\ UNCHANGED otherVars

\* a new process starts with the event clear
Restart ==
    /\ pc = "idle"
    /\ shutdown
    /\ shutdown' = FALSE
    /\ UNCHANGED <<storeVars, remoteVars, localVars, histVars>>
    /\ UNCHANGED otherVars

Next ==
    \/ StartCycle
    \/ GetInitState
    \/ InitGetTokens
    \/ LoopShutdown
    \/ LoopFetch
    \/ PageTokens
    \/ PageUpdate
    \/ PageDelete
    \/ InitFetch
    \/ InitTokens
    \/ InitUpdate
    \/ SetInitState
    \/ UpdGetTokens
    \/ UpdFetch
    \/ UpdTokens
    \/ UpdUpdate
    \/ UpdDelete
    \/ \E kind \in {"transport", "decode"} : FetchFail(kind)
    \/ StoreFail
    \/ Crash
    \/ Cancel
    \/ Restart

Spec == Init /\ [][Next]_vars

TypeOK ==
    /\ mirror \in Mirrors
    /\ row.state_token \in StateToks
    /\ row.page_token \in PageToks
    /\ pc \in StorePcs \cup {"idle", "loop", "init_fetch", "upd_fetch"}

\* ------------------------------------ update_cache without interruption
\* The result of the same code when nothing fails and nothing is cancelled,
\* as a function of the store it starts from: st = [mirror, row].
RECURSIVE process_pages(_, _)
process_pages(st, page_token) ==
    LET p == parse_db_update(remotePage[page_token])
        st2 == [mirror |-> apply_page(st.mirror, p),
                row |-> update_state_tokens(st.row, None, p.next_page_token)]
    IN  IF p.next_page_token = 0 THEN st2
        ELSE process_pages(st2, p.next_page_token)

cache_init(st) ==
    LET t == get_state_tokens(st.row)
        st1 == IF t[2] # 0 THEN process_pages(st, t[2]) ELSE st
        p == parse_db_update(remoteTop[t[1]])
        st2 == [mirror |-> update(st1.mirror, p.remote_media),
                row |-> update_state_tokens(st1.row, p.state_token,
                                            p.next_page_token)]
    IN  IF p.next_page_token # 0 THEN process_pages(st2, p.next_page_token)
        ELSE st2

cache_update(st) ==
    LET t == get_state_tokens(st.row)
        p == parse_db_update(remoteTop[t[1]])
        st2 == [mirror |-> apply_page(st.mirror, p),
                row |-> update_state_tokens(st.row, p.state_token,
                                            p.next_page_token)]
    IN  IF p.next_page_token # 0 THEN process_pages(st2, p.next_page_token)
        ELSE st2

update_cache(st) ==
    LET st0 == [mirror |-> st.mirror, row |-> get_init_state_row(st.row)]
    IN  IF ~get_init_state(st.row)
        THEN LET st1 == cache_init(st0)
             IN  cache_update([mirror |-> st1.mirror,
                               row |-> set_init_state(st1.row, TRUE)])
        ELSE cache_update(st0)

\* the store after n uninterrupted cycles from the never-synchronized state
RECURSIVE RefAfter(_)
RefAfter(n) ==
    IF n = 0 THEN [mirror |-> EmptyMirror, row |-> NoRow]
    ELSE update_cache(RefAfter(n - 1))

\* ------------------------------------------------------------- the claims
Cursor == get_state_tokens(row)

\* C1: when a cycle starts with a non-empty stored pageToken, the first
\* request the cycle sends is the page fetch for that pageToken, not a
\* top-level getLibraryState fetch (cycles in which the cancellation signal
\* or a failure already intervened are left out).
C1_ResumeBeforeTopFetch ==
    (startPageTok # 0 /\ firstFetch # NoReq /\ interrupted = "no")
        => firstFetch = [kind |-> "page", tok |-> startPageTok]

\* C2: a cycle that re-runs to completion after an interrupted cycle ends
\* with the mirror that uninterrupted cycles over the same remote answers
\* have when they reach the same state token.
C2_ResumeEqualsUninterrupted ==
    (pc = "idle" /\ last = "done" /\ rerun /\ interrupted = "no")
        => \E n \in 1..MaxRef :
              /\ RefAfter(n).row.state_token = row.state_token
              /\ RefAfter(n).mirror = mirror

\* C3: whenever no cycle is running (also after a crash or a storage failure
\* between two store operations), the stored cursor is the cursor of the
\* last response whose store operations were all applied.
C3_CursorNotPastAppliedPage ==
    pc = "idle" => Cursor = appliedCur

\* C4: initComplete is true only if the initial listing was applied up to a
\* response that carried no further pageToken.
C4_InitCompleteOnlyAfterListing ==
    row.init_complete => initListed

ScenarioC5 ==
    /\ remoteTop[0] = [f6 |-> 1, f1 |-> 1, f2 |-> <<RawA>>, f9 |-> <<>>]
    /\ remotePage[1] = [f6 |-> 0, f1 |-> 0, f2 |-> <<RawB>>,
                        f9 |-> <<[type |-> DelTypeMediaKey, key |-> KeyA]>>]

ResultC5 ==
    /\ mirror = [k \in Keys |-> IF k = KeyB THEN 1 ELSE NoRec]
    /\ Cursor = <<1, 0>>
    /\ row.init_complete

EndedUninterrupted ==
    pc = "idle" /\ last = "done" /\ interrupted = "no"

\* C5 as stated: in the scenario one invocation of update_cache that starts
\* from the never-synchronized state ends with mirror {B}, cursor ("s1", "")
\* and initComplete.
C5_ScenarioAsStated ==
    (ScenarioC5 /\ startedFresh /\ EndedUninterrupted) => ResultC5

\* C5 amended: the same, provided the top-level fetch for "s1" that the
\* invocation issues in STEADY right after the initial listing reports no
\* change (state token "s1", no page token, no items, no deletions).
C5_ScenarioNoChangeAfterInit ==
    (/\ ScenarioC5
     /\ remoteTop[1] = [f6 |-> 1, f1 |-> 0, f2 |-> <<>>, f9 |-> <<>>]
     /\ startedFresh
     /\ EndedUninterrupted) => ResultC5

C5_Witness ==
    /\ ScenarioC5
    /\ remoteTop[1] = [f6 |-> 1, f1 |-> 0, f2 |-> <<>>, f9 |-> <<>>]
    /\ startedFresh
    /\ EndedUninterrupted
    /\ ResultC5

\* C6: once the top-level response of PAGING_INIT has been applied, no media
\* key that the response lists as deleted has a record in the mirror.
C6_InitTopAppliesDeletions ==
    (applied = "init_top" /\ pc # "idle")
        => \A k \in Range(parsed.media_keys_to_delete) : mirror[k] = NoRec

\* C7: after a transport or decode failure of a request, the first request
\* of the next invocation is the request that failed (the same page is
\* retried), in a cycle in which no cancellation or failure intervened.
C7_FailedPageIsRetried ==
    (retryReq # NoReq /\ firstFetch # NoReq /\ interrupted = "no")
        => firstFetch = retryReq

\* the first half of C7: the failing request changes neither the cursor nor
\* the mirror
FetchFailKeepsStore ==
    [][(\E kind \in {"transport", "decode"} : FetchFail(kind))
          => UNCHANGED storeVars]_vars

\* ------------------------------------------- one delta against the store
\* The parser and the store block (update, then delete) applied to any
\* delta of bounded size, and applied a second time.
StoreDeltas ==
    RawResponses({0}, {0}, SeqsUpTo(RawItems, MaxItems),
                 SeqsUpTo(DelEntries, MaxDels))

ItemKeys(data) == {data.f2[i].k : i \in 1..Len(data.f2)}

\* a response arrives: parse_db_update, then update and delete in one
\* storage block; an exception of the parser leaves the store as it is
ApplyDelta(d) ==
    /\ sraw' = d
    /\ sbefore' = mirror
    /\ IF parse_raises(d)
       THEN /\ spc' = "failed"
            /\ UNCHANGED <<mirror, sonce>>
       ELSE /\ mirror' = apply_page(mirror, parse_db_update(d))
            /\ sonce' = mirror'
            /\ spc' = "applied"
    /\ UNCHANGED <<row, remoteVars, localVars, shutdown, histVars, sprevIns,
                   gatewayVars, uploadVars, auxVars>>

SApply ==
    /\ spc = "ready"
    /\ \E d \in StoreDeltas : ApplyDelta(d)

\* the same response is parsed and applied a second time
SReapply ==
    /\ spc = "applied"
    /\ mirror' = apply_page(mirror, parse_db_update(sraw))
    /\ spc' = "reapplied"
    /\ UNCHANGED <<row, remoteVars, localVars, shutdown, histVars, sraw,
                   sbefore, sonce, sprevIns, gatewayVars, uploadVars, auxVars>>

\* ready for the next response; the response is dropped
SDone ==
    /\ spc \in {"applied", "reapplied", "failed"}
    /\ spc' = "ready"
    /\ sraw' = NoDelta
    /\ sbefore' = EmptyMirror
    /\ sonce' = EmptyMirror
    /\ UNCHANGED <<storeVars, remoteVars, localVars, shutdown, histVars,
                   sprevIns, gatewayVars, uploadVars, auxVars>>

SNext == SApply \/ SReapply \/ SDone

\* no update_cache is running and none has run, the mirror is empty
SyncIdle ==
    /\ mirror = EmptyMirror
    /\ row = NoRow
    /\ remoteTop = [s \in StateToks |-> NoDelta]
    /\ remotePage = [q \in 1..MaxPageTok |-> NoDelta]
    /\ pc = "idle"
    /\ phase = "none"
    /\ state_token = 0
    /\ next_page_token = 0
    /\ parsed = NoParsed
    /\ shutdown = FALSE
    /\ last = "none"
    /\ startPageTok = 0
    /\ firstFetch = NoReq
    /\ failedReq = NoReq
    /\ retryReq = NoReq
    /\ interrupted = "no"
    /\ rerun = FALSE
    /\ startedFresh = FALSE
    /\ appliedCur = <<0, 0>>
    /\ initListed = FALSE
    /\ applied = "none"
    /\ observed = FALSE

SInit ==
    /\ mirror = EmptyMirror
    /\ row = NoRow
    /\ remoteTop = [s \in StateToks |-> NoDelta]
    /\ remotePage = [q \in 1..MaxPageTok |-> NoDelta]
    /\ pc = "idle"
    /\ phase = "none"
    /\ state_token = 0
    /\ next_page_token = 0
    /\ parsed = NoParsed
    /\ shutdown = FALSE
    /\ last = "none"
    /\ startPageTok = 0
    /\ firstFetch = NoReq
    /\ failedReq = NoReq
    /\ retryReq = NoReq
    /\ interrupted = "no"
    /\ rerun = FALSE
    /\ startedFresh = FALSE
    /\ appliedCur = <<0, 0>>
    /\ initListed = FALSE
    /\ applied = "none"
    /\ observed = FALSE
    /\ ApplyIdle
    /\ GatewayIdle
    /\ threads = 1
    /\ UploadIdle
    /\ LibIdle
    /\ AuxIdle
    /\ ExtIdle

SpecStore == SInit /\ [][SNext]_vars

\* ------------------------------------------------- two deltas in sequence
\* Deltas whose deletion entries all carry a media key, applied one after
\* the other; the keys of the items of the delta before are remembered.
KeyedDeltas ==
    RawResponses({0}, {0}, SeqsUpTo(RawItems, MaxItems),
                 SeqsUpTo([type : {DelTypeMediaKey}, key : Keys], MaxDels))

OApply ==
    /\ spc = "ready"
    /\ \E d \in KeyedDeltas : ApplyDelta(d)

\* the loop goes on to the next response
ONextDelta ==
    /\ spc = "applied"
    /\ sprevIns' = ItemKeys(sraw)
    /\ spc' = "ready"
    /\ sraw' = NoDelta
    /\ sbefore' = EmptyMirror
    /\ sonce' = EmptyMirror
    /\ UNCHANGED <<storeVars, remoteVars, localVars, shutdown, histVars,
                   gatewayVars, uploadVars, auxVars>>

ONext == OApply \/ ONextDelta

SpecOrder == SInit /\ [][ONext]_vars

\* media keys of the deletion entries with discriminant 1
ListedDeleted(data) ==
    {data.f9[i].key : i \in {j \in 1..Len(data.f9) : data.f9[j].type = DelTypeMediaKey}}

\* content of media key k after the items of the response were upserted into
\* mirror m: the last item for k wins, without item the stored one stays
Upserted(m, data, k) ==
    LET idx == {i \in 1..Len(data.f2) : data.f2[i].k = k}
    IN  IF idx = {} THEN m[k]
        ELSE data.f2[CHOOSE i \in idx : \A j \in idx : j <= i].v

\* C8: applying a delta page a second time (upsert all items, then delete all
\* deleted keys) leaves the mirror as the first application left it.
C8_ApplyTwiceEqualsOnce ==
    spc = "reapplied" => mirror = sonce

C8_Witness ==
    /\ spc = "reapplied"
    /\ sonce # sbefore
    /\ sraw.f2 # <<>>
    /\ ListedDeleted(sraw) # {}
    /\ \E k \in Keys : sbefore[k] # NoRec /\ sonce[k] \notin {NoRec, sbefore[k]}
    /\ mirror = sonce

C10_OnlyDiscriminantOneDeletes ==
    /\ spc = "failed" => \E i \in 1..Len(sraw.f9) : sraw.f9[i].type = NoField
    /\ spc = "applied" =>
          \A k \in Keys :
              mirror[k] = IF k \in ListedDeleted(sraw) THEN NoRec
                          ELSE Upserted(sbefore, sraw, k)

C10_Witness ==
    /\ spc = "applied"
    /\ sraw.f2 # <<>>
    /\ \E i, j \in 1..Len(sraw.f9) :
          /\ sraw.f9[i].type = DelTypeOther
          /\ mirror[sraw.f9[i].key] # NoRec
          /\ sraw.f9[j].type = DelTypeMediaKey
          /\ sbefore[sraw.f9[j].key] # NoRec
          /\ mirror[sraw.f9[j].key] = NoRec

\* ------------------------------------------------ remote gateway (api.py)
\* One caller at a time uses the gateway: a candidate of the upload
\* procedure (_upload_file) or get_download_url. The service and the token
\* service answer every request with any of the statuses.
RetryLimit == 5

Statuses == {200, 401, 403, 500, 503, 404}

\* the branches of _request on response.status_code, with the last branch
\* taken for 500 and 503 only when no other status is left
classify_other_as_server(status) ==
    IF status = 200 THEN "ok"
    ELSE IF status \in {401, 403} THEN "auth"
    ELSE "server"

\* the branches of _request on response.status_code
classify(status) ==
    IF status = 200 THEN "ok"
    ELSE IF status \in {401, 403} THEN "auth"
    ELSE IF status \in {500, 503} THEN "server"
    ELSE "other"

\* a loop that runs once more
retries_left_once_more(retry) == retry <= RetryLimit

\* while retry < 5
retries_left(retry) == retry < RetryLimit

\* a header that is left as the operation built it
attach_never(tok, h, url) == h

\* the Authorization header of the attempt: the token of the cell when
\* there is one and the request does not go to the token service
attach(tok, h, url) == IF tok # NoToken /\ url = "api" THEN tok ELSE h

\* a frame of _request that has just been entered; site is the place that
\* called it ("op": an operation; get_auth_token called from "no_token",
\* "auth_retry" or "caller")
Frame(url, site) ==
    [url |-> url, retry |-> 0, stage |-> "loop", status |-> 0, site |-> site]

Top == stack[Len(stack)]

SetTop(f) == [stack EXCEPT ![Len(stack)] = f]

TokenFrames == Cardinality({i \in 1..Len(stack) : stack[i].url = "token"})

\* a counter of the history that stops at max
Count(n, max) == IF n < max THEN n + 1 ELSE max

\* the responses since the caller started: "clean" (all 200), "auth_once"
\* (one 401/403, to the first attempt of an operation, all others 200) or
\* "dirty"
scen_after(sc, url, status, att) ==
    IF classify(status) = "ok" THEN sc
    ELSE IF url = "api" /\ classify(status) = "auth" /\ sc = "clean" /\ att = 1
    THEN "auth_once"
    ELSE "dirty"

\* position of the caller after an operation returned
AfterOp(op) ==
    CASE op = "findByHash" -> "looked"
      [] op = "getUploadToken" -> "uploadBytes"
      [] OTHER -> "done"

\* an operation builds its headers from self.token and awaits _request
EnterRequest(op) ==
    /\ gpc' = op
    /\ hdr' = token
    /\ stack' = <<Frame("api", "op")>>
    /\ attempts' = 0
    /\ n5xx' = 0
    /\ returned' = 0

\* _request returns the response to the operation, which calls
\* raise_for_status
OpReturns(status) ==
    /\ returned' = status
    /\ stack' = <<>>
    /\ gpc' = IF status = 200 THEN AfterOp(gpc) ELSE "failed"
    /\ UNCHANGED <<token, tokenWriter, hdr, attempts, n5xx>>

\* _request returns the response to get_auth_token: raise_for_status, then
\* self.token = response.json().get("token"); the caller of get_auth_token
\* goes on (the loop of _request, or get_download_url)
TokenReturns(status) ==
    IF status # 200
    THEN /\ gpc' = "failed"
         /\ stack' = <<>>
         /\ UNCHANGED <<token, tokenWriter, hdr, attempts, n5xx, returned>>
    ELSE \E t \in Tokens :
            /\ token' = t
            /\ tokenWriter' = Top.site
            /\ IF Len(stack) > 1
               THEN /\ stack' = [SubSeq(stack, 1, Len(stack) - 1)
                                   EXCEPT ![Len(stack) - 1].stage = "loop"]
                    /\ UNCHANGED <<hdr, gpc, attempts, n5xx, returned>>
               ELSE /\ hdr' = t
                    /\ stack' = <<Frame("api", "op")>>
                    /\ attempts' = 0
                    /\ n5xx' = 0
                    /\ returned' = 0
                    /\ UNCHANGED gpc

Return(status) ==
    IF Top.url = "api" THEN OpReturns(status) ELSE TokenReturns(status)

nonGatewayVars == <<syncVars, shutdown, uploadVars>>

\* _upload_file calls find_remote_media_by_hash
GStartUpload ==
    /\ gpc = "idle"
    /\ EnterRequest("findByHash")
    /\ UNCHANGED <<token, lastStatus, forced, scen, sentLast, tokenWriter,
                   nonGatewayVars>>

\* get_download_url: token = await self.get_auth_token(user)
GStartDownload ==
    /\ gpc = "idle"
    /\ gpc' = "getDownloadUrl"
    /\ stack' = <<Frame("token", "caller")>>
    /\ UNCHANGED <<token, hdr, attempts, n5xx, lastStatus, returned, forced, scen,
                   sentLast, tokenWriter, nonGatewayVars>>

\* the head of the loop of _request up to the request that is sent
ReqLoop ==
    /\ stack # <<>>
    /\ Top.stage = "loop"
    /\ IF ~retries_left(Top.retry)
       THEN /\ Return(Top.status)
            /\ UNCHANGED sentLast
       ELSE IF token = NoToken /\ Top.url = "api"
       THEN /\ stack' = Append(SetTop([Top EXCEPT !.stage = "wait"]),
                               Frame("token", "no_token"))
            /\ UNCHANGED <<token, tokenWriter, hdr, gpc, attempts, n5xx, returned,
                           sentLast>>
       ELSE /\ hdr' = attach(token, hdr, Top.url)
            /\ stack' = SetTop([Top EXCEPT !.stage = "sent"])
            /\ IF Top.url = "api"
               THEN /\ attempts' = Count(attempts, MaxAttempts)
                    /\ sentLast' = [hdr |-> hdr', cell |-> token,
                                    wrapped |-> TRUE, any |-> TRUE]
               ELSE UNCHANGED <<attempts, sentLast>>
            /\ UNCHANGED <<token, tokenWriter, gpc, n5xx, returned>>
    /\ UNCHANGED <<lastStatus, forced, scen, nonGatewayVars>>

\* the response of an attempt and the branch of _request it takes
Respond ==
    /\ stack # <<>>
    /\ Top.stage = "sent"
    /\ \E status \in Statuses :
          /\ (Top.url = "token" /\ classify(status) = "auth")
                => TokenFrames < MaxDepth
          /\ lastStatus' = status
          /\ scen' = scen_after(scen, Top.url, status, attempts)
          /\ CASE classify(status) \in {"ok", "other"} ->
                    /\ Return(status)
                    /\ UNCHANGED forced
               [] classify(status) = "auth" ->
                    /\ forced' = Count(forced, MaxForced)
                    /\ stack' = Append(SetTop([Top EXCEPT !.stage = "wait",
                                                          !.status = status]),
                                       Frame("token", "auth_retry"))
                    /\ UNCHANGED <<token, tokenWriter, hdr, gpc, attempts, n5xx,
                                   returned>>
               [] classify(status) = "server" ->
                    /\ stack' = SetTop([Top EXCEPT !.retry = @ + 1,
                                                   !.stage = "loop",
                                                   !.status = status])
                    /\ n5xx' = IF Top.url = "api"
                               THEN Count(n5xx, MaxAttempts) ELSE n5xx
                    /\ UNCHANGED <<token, tokenWriter, hdr, gpc, attempts,
                                   returned, forced>>
    /\ UNCHANGED <<sentLast, nonGatewayVars>>

\* _upload_file after find_remote_media_by_hash: a media key was found, or
\* get_upload_token is called
AfterLookup ==
    /\ gpc = "looked"
    /\ \/ /\ gpc' = "done"
          /\ UNCHANGED <<hdr, stack, attempts, n5xx, returned>>
       \/ EnterRequest("getUploadToken")
    /\ UNCHANGED <<token, lastStatus, forced, scen, sentLast, tokenWriter,
                   nonGatewayVars>>

\* upload_file: the headers are built from self.token and the request is
\* sent with self.httpclient.put
UploadPut ==
    /\ gpc = "uploadBytes"
    /\ gpc' = "uploadSent"
    /\ hdr' = token
    /\ attempts' = 1
    /\ n5xx' = 0
    /\ returned' = 0
    /\ sentLast' = [hdr |-> hdr', cell |-> token, wrapped |-> FALSE,
                    any |-> TRUE]
    /\ UNCHANGED <<token, stack, lastStatus, forced, scen, tokenWriter,
                   nonGatewayVars>>

\* upload_file: response.raise_for_status()
UploadRespond ==
    /\ gpc = "uploadSent"
    /\ \E status \in Statuses :
          /\ lastStatus' = status
          /\ scen' = scen_after(scen, "api", status, attempts)
          /\ n5xx' = IF classify(status) = "server" THEN 1 ELSE 0
          /\ gpc' = IF status = 200 THEN "uploaded" ELSE "failed"
    /\ UNCHANGED <<token, hdr, stack, attempts, returned, forced, sentLast,
                   tokenWriter, nonGatewayVars>>

\* _upload_file calls commit_upload
AfterUpload ==
    /\ gpc = "uploaded"
    /\ EnterRequest("commitUpload")
    /\ UNCHANGED <<token, lastStatus, forced, scen, sentLast, tokenWriter,
                   nonGatewayVars>>

\* the caller is gone; the cell keeps its token for the next caller
GReset ==
    /\ gpc \in {"done", "failed"}
    /\ gpc' = "idle"
    /\ hdr' = NoToken
    /\ stack' = <<>>
    /\ attempts' = 0
    /\ n5xx' = 0
    /\ lastStatus' = 0
    /\ returned' = 0
    /\ forced' = 0
    /\ scen' = "clean"
    /\ sentLast' = NoSent
    /\ tokenWriter' = "none"
    /\ UNCHANGED <<token, nonGatewayVars>>

GNext ==
    \/ GStartUpload
    \/ GStartDownload
    \/ ReqLoop
    \/ Respond
    \/ AfterLookup
    \/ UploadPut
    \/ UploadRespond
    \/ AfterUpload
    \/ GReset

GInit == SInit

SpecGateway == GInit /\ [][GNext]_vars

\* every request is answered and every task that can run does run
SpecGatewayLive == GInit /\ [][GNext]_vars /\ WF_vars(GNext)

\* C13: when the only response other than 200 that a candidate got was one
\* 401/403, to the first attempt of one of its operations, the candidate
\* ends with a media key and exactly one forced token refresh was issued.
C13_AuthOnceThenSuccess ==
    (gpc \in {"done", "failed"} /\ scen = "auth_once")
        => (gpc = "done" /\ forced = 1)

C15_EveryCallReturns ==
    (stack # <<>>) ~> (stack = <<>>)

\* C16: a response to an attempt of an operation whose status is none of
\* 200, 401, 403, 500, 503 is returned to the operation at once: no further
\* attempt is made, no refresh is forced and the token is left as it is.
C16_OtherStatusReturnedAtOnce ==
    [][(/\ stack # <<>>
        /\ Top.url = "api"
        /\ Top.stage = "sent"
        /\ lastStatus' \notin {200, 401, 403, 500, 503})
          => /\ returned' = lastStatus'
             /\ stack' = <<>>
             /\ gpc' = "failed"
             /\ attempts' = attempts
             /\ forced' = forced
             /\ token' = token]_vars

C16_Witness ==
    /\ lastStatus \in Statuses \ {200, 401, 403, 500, 503}
    /\ returned = lastStatus
    /\ gpc = "failed"
    /\ attempts = 1
    /\ forced = 0
    /\ tokenWriter = "none"
    /\ token # NoToken

\* C17: every attempt sent to the service was sent by _request, and the
\* token was written last by a get_auth_token that _request called, for
\* the missing token or for a 401/403.
C17_OnlyThroughWrapper ==
    /\ sentLast.wrapped
    /\ tokenWriter \in {"none", "no_token", "auth_retry"}

\* C18: every attempt sent to the service carries a token, the one the
\* cell held when the attempt was sent.
C18_AttemptCarriesCellToken ==
    sentLast.any => (sentLast.cell # NoToken /\ sentLast.hdr = sentLast.cell)

C18_Witness ==
    /\ sentLast.any
    /\ sentLast.wrapped
    /\ tokenWriter = "auth_retry"
    /\ forced = 1
    /\ attempts = 2
    /\ sentLast.hdr = token
    /\ gpc = "done"

\* ------------------------------------- upload batch (client.py, 94-306)
\* upload_monitor with the tasks of one batch. A gateway operation, and the
\* hashing, returns or raises; which, is the choice of the environment.
Terminal == {"ok", "failed", "cancelled"}

Holding == {"slot", "hashing", "lookup", "token", "upload", "commit"}

\* media key of the remote item with the content of candidate c, and media
\* key that the commit of candidate c returns
DupKey(c) == c

NewKey(c) == NumCands + c

\* a semaphore that never blocks
sem_free_always(value) == TRUE

\* asyncio.Semaphore: acquire goes on when the value is positive
sem_free(value) == value > 0

\* a lookup result that is never taken as a match
is_duplicate_never(remote_media_key) == FALSE

\* if remote_media_key := await self.api.find_remote_media_by_hash(...)
is_duplicate(remote_media_key) == remote_media_key # 0

\* a loop over the tasks that ends with the first task
batch_drained_first(nAwaited, nTasks) == nAwaited >= 1

\* for coro in asyncio.as_completed(tasks): one round per task
batch_drained(nAwaited, nTasks) == nAwaited = nTasks

\* a handler that leaves the loop over the tasks
on_task_error_abort == "sleep"

\* except Exception in the loop over the tasks: count, go on with the loop
on_task_error == "gather"

\* a check of the event that is never taken
check_shutdown_skipped(is_set) == FALSE

\* if shutdown_event.is_set(): raise asyncio.CancelledError()
check_shutdown(is_set) == is_set

\* a handler that counts a cancelled task as an error
counts_as_error_also_cancelled(outcome) == outcome \in {"failed", "cancelled"}

\* the handlers of the loop over the tasks: except asyncio.CancelledError
\* passes, except Exception adds one to upload_error_count
counts_as_error(outcome) == outcome = "failed"

\* a refresh after every batch
has_results_always(res) == TRUE

\* if results:
has_results(res) == \E c \in Cands : res[c] # 0

\* tasks that ended and that upload_monitor has awaited
Awaited == {c \in Cands : cand[c].pc \in Terminal /\ c \notin Range(doneQ)}

Tasks == {c \in Cands : cand[c].pc # "none"}

nonUploadVars == <<syncVars, gatewayVars>>

\* a task that leaves without giving its slot back
release_leaks(value) == value

\* the exit of async with threads, on return and on any exception:
\* Semaphore.release
release(value) == value + 1

\* a lookup that never finds what this client committed
find_remote_media_by_hash_stale(l, c) == {0}

\* Api.find_remote_media_by_hash: the media keys the lookup for the content
\* of candidate c can return (0: None)
find_remote_media_by_hash(l, c) ==
    IF l[chash[c]] = Untracked THEN {0, DupKey(c)} ELSE {l[chash[c]]}

\* a task that commits right after it has the upload token
step_after_skips_upload(pos) ==
    CASE pos = "lookup" -> [pos |-> "token", op |-> "getUploadToken"]
      [] pos = "token" -> [pos |-> "commit", op |-> "commitUpload"]
      [] pos = "upload" -> [pos |-> "commit", op |-> "commitUpload"]

\* the gateway call _upload_file makes after the call it awaited at pos
\* returned: get_upload_token, upload_file, commit_upload
step_after(pos) ==
    CASE pos = "lookup" -> [pos |-> "token", op |-> "getUploadToken"]
      [] pos = "token" -> [pos |-> "upload", op |-> "uploadBytes"]
      [] pos = "upload" -> [pos |-> "commit", op |-> "commitUpload"]

\* where the file of a task is when the task has ended: os.renames to /scan/
\* for a duplicate, to /gphotos.error/ in except Exception; a file that was
\* uploaded and a file whose task was cancelled stay where they are
file_after(outcome) ==
    CASE outcome = "duplicate" -> "scan"
      [] outcome = "failed" -> "error"
      [] OTHER -> "gphotos"

\* the task leaves async with threads: the semaphore is released and the
\* task is done
Finish(c, outcome, key) ==
    /\ cand' = [cand EXCEPT ![c].pc = outcome, ![c].key = key]
    /\ floc' = [floc EXCEPT ![c] = file_after(outcome)]
    /\ sem' = release(sem)
    /\ doneQ' = Append(doneQ, c)
    /\ UNCHANGED calls

\* the task goes on to its next await
Goto(c, pos, op) ==
    /\ cand' = [cand EXCEPT ![c].pc = pos]
    /\ calls' = [calls EXCEPT ![c] = @ \cup {op}]
    /\ UNCHANGED <<sem, doneQ, floc>>

\* files that os.walk finds in the scanned directory
files_to_be_upload == {c \in Cands : floc[c] = "gphotos"}

\* the head of the loop of upload_monitor, the directory scan and the
\* creation of the semaphore and of the tasks
Scan ==
    /\ mpc = "scan"
    /\ IF shutdown
       THEN /\ mpc' = "stopped"
            /\ UNCHANGED <<sem, cand, calls, doneQ, results, upload_error_count,
                           cycles>>
       ELSE /\ mpc' = IF files_to_be_upload # {} THEN "gather" ELSE "sleep"
            /\ sem' = IF files_to_be_upload # {} THEN threads ELSE sem
            /\ cand' = [c \in Cands |-> IF c \in files_to_be_upload
                                        THEN [NoTask EXCEPT !.pc = "queued"]
                                        ELSE NoTask]
            /\ calls' = [c \in Cands |-> {}]
            /\ doneQ' = <<>>
            /\ results' = [c \in Cands |-> 0]
            /\ upload_error_count' = 0
            /\ cycles' = 0
    /\ UNCHANGED <<threads, shutdown, atCancel, floc, chash, lib, nonUploadVars>>

\* async with threads
Acquire(c) ==
    /\ cand[c].pc = "queued"
    /\ sem_free(sem)
    /\ sem' = sem - 1
    /\ cand' = [cand EXCEPT ![c].pc = "slot"]
    /\ UNCHANGED <<threads, calls, doneQ, mpc, results, upload_error_count,
                   cycles, shutdown, atCancel, floc, chash, lib,
                   nonUploadVars>>

\* the first check of shutdown_event, then calculate_sha1_hash
Begin(c) ==
    /\ cand[c].pc = "slot"
    /\ IF check_shutdown(shutdown)
       THEN Finish(c, "cancelled", 0)
       ELSE /\ cand' = [cand EXCEPT ![c].pc = "hashing"]
            /\ UNCHANGED <<sem, calls, doneQ, floc>>
    /\ UNCHANGED <<threads, mpc, results, upload_error_count, cycles, shutdown,
                   atCancel, chash, lib, nonUploadVars>>

\* the hash is there (or the file could not be read); the second check of
\* shutdown_event, then find_remote_media_by_hash
Hashed(c) ==
    /\ cand[c].pc = "hashing"
    /\ \E raised \in BOOLEAN :
          IF raised THEN Finish(c, "failed", 0)
          ELSE IF check_shutdown(shutdown) THEN Finish(c, "cancelled", 0)
          ELSE Goto(c, "lookup", "findByHash")
    /\ UNCHANGED <<threads, mpc, results, upload_error_count, cycles, shutdown,
                   atCancel, chash, lib, nonUploadVars>>

\* find_remote_media_by_hash returned a media key or None, or raised
Looked(c) ==
    /\ cand[c].pc = "lookup"
    /\ \/ Finish(c, "failed", 0)
       \/ \E k \in find_remote_media_by_hash(lib, c) :
             IF is_duplicate(k)
             THEN /\ cand' = [cand EXCEPT ![c] = [pc |-> "ok", found |-> k,
                                                  key |-> k]]
                  /\ floc' = [floc EXCEPT ![c] = file_after("duplicate")]
                  /\ sem' = release(sem)
                  /\ doneQ' = Append(doneQ, c)
                  /\ UNCHANGED calls
             ELSE /\ cand' = [cand EXCEPT ![c].pc = step_after("lookup").pos,
                                          ![c].found = k]
                  /\ calls' = [calls EXCEPT ![c] = @ \cup {step_after("lookup").op}]
                  /\ UNCHANGED <<sem, doneQ, floc>>
    /\ UNCHANGED <<threads, mpc, results, upload_error_count, cycles, shutdown,
                   atCancel, chash, lib, nonUploadVars>>

\* get_upload_token returned or raised
Tokened(c) ==
    /\ cand[c].pc = "token"
    /\ \/ Finish(c, "failed", 0)
       \/ Goto(c, step_after("token").pos, step_after("token").op)
    /\ UNCHANGED <<threads, mpc, results, upload_error_count, cycles, shutdown,
                   atCancel, chash, lib, nonUploadVars>>

\* upload_file returned or raised
Uploaded(c) ==
    /\ cand[c].pc = "upload"
    /\ \/ Finish(c, "failed", 0)
       \/ Goto(c, step_after("upload").pos, step_after("upload").op)
    /\ UNCHANGED <<threads, mpc, results, upload_error_count, cycles, shutdown,
                   atCancel, chash, lib, nonUploadVars>>

\* commit_upload returned the media key, and the library has the item, or
\* it raised
Committed(c) ==
    /\ cand[c].pc = "commit"
    /\ \/ Finish(c, "failed", 0) /\ UNCHANGED lib
       \/ /\ Finish(c, "ok", NewKey(c))
          /\ lib' = [lib EXCEPT ![chash[c]] = NewKey(c)]
    /\ UNCHANGED <<threads, mpc, results, upload_error_count, cycles, shutdown,
                   atCancel, chash, nonUploadVars>>

\* one round of the loop over asyncio.as_completed(tasks): the task that
\* ended first is awaited
Await ==
    /\ mpc = "gather"
    /\ doneQ # <<>>
    /\ LET c == Head(doneQ) IN
          /\ doneQ' = Tail(doneQ)
          /\ results' = IF cand[c].pc = "ok"
                        THEN [results EXCEPT ![c] = cand[c].key] ELSE results
          /\ upload_error_count' = IF counts_as_error(cand[c].pc)
                                   THEN upload_error_count + 1
                                   ELSE upload_error_count
          /\ mpc' = IF cand[c].pc = "failed" THEN on_task_error ELSE "gather"
    /\ UNCHANGED <<threads, sem, cand, calls, cycles, shutdown, atCancel,
                   floc, chash, lib, nonUploadVars>>

\* the loop over the tasks is over: if results: await self.update_cache()
AfterBatch ==
    /\ mpc = "gather"
    /\ batch_drained(Cardinality(Awaited), Cardinality(Tasks))
    /\ cycles' = IF has_results(results) THEN cycles + 1 ELSE cycles
    /\ mpc' = "sleep"
    /\ UNCHANGED <<threads, sem, cand, calls, doneQ, results, upload_error_count,
                   shutdown, atCancel, floc, chash, lib, nonUploadVars>>

\* await sleep(30)
Sleep ==
    /\ mpc = "sleep"
    /\ mpc' = "scan"
    /\ UNCHANGED <<threads, sem, cand, calls, doneQ, results, upload_error_count,
                   cycles, shutdown, atCancel, floc, chash, lib,
                   nonUploadVars>>

\* shutdown_event.set()
UCancel ==
    /\ ~shutdown
    /\ mpc # "stopped"
    /\ shutdown' = TRUE
    /\ atCancel' = [c \in Cands |-> cand[c].pc]
    /\ UNCHANGED <<threads, sem, cand, calls, doneQ, mpc, results,
                   upload_error_count, cycles, floc, chash, lib, nonUploadVars>>

\* shutdown_event.set(), the positions of the tasks not recorded
UCancelPlain ==
    /\ ~shutdown
    /\ mpc # "stopped"
    /\ shutdown' = TRUE
    /\ UNCHANGED <<threads, sem, cand, calls, doneQ, mpc, results,
                   upload_error_count, cycles, atCancel, floc, chash, lib,
                   nonUploadVars>>

\* the batch without the history of the cancellation
UNextPlain ==
    \/ Scan
    \/ \E c \in Cands : Acquire(c)
    \/ \E c \in Cands : Begin(c)
    \/ \E c \in Cands : Hashed(c)
    \/ \E c \in Cands : Looked(c)
    \/ \E c \in Cands : Tokened(c)
    \/ \E c \in Cands : Uploaded(c)
    \/ \E c \in Cands : Committed(c)
    \/ Await
    \/ AfterBatch
    \/ Sleep
    \/ UCancelPlain

UNext ==
    \/ Scan
    \/ \E c \in Cands : Acquire(c)
    \/ \E c \in Cands : Begin(c)
    \/ \E c \in Cands : Hashed(c)
    \/ \E c \in Cands : Looked(c)
    \/ \E c \in Cands : Tokened(c)
    \/ \E c \in Cands : Uploaded(c)
    \/ \E c \in Cands : Committed(c)
    \/ Await
    \/ AfterBatch
    \/ Sleep
    \/ UCancel

\* GPhoto(threads=n), nothing scanned yet
UInit ==
    /\ mirror = EmptyMirror
    /\ row = NoRow
    /\ remoteTop = [s \in StateToks |-> NoDelta]
    /\ remotePage = [q \in 1..MaxPageTok |-> NoDelta]
    /\ pc = "idle"
    /\ phase = "none"
    /\ state_token = 0
    /\ next_page_token = 0
    /\ parsed = NoParsed
    /\ shutdown = FALSE
    /\ last = "none"
    /\ startPageTok = 0
    /\ firstFetch = NoReq
    /\ failedReq = NoReq
    /\ retryReq = NoReq
    /\ interrupted = "no"
    /\ rerun = FALSE
    /\ startedFresh = FALSE
    /\ appliedCur = <<0, 0>>
    /\ initListed = FALSE
    /\ applied = "none"
    /\ observed = FALSE
    /\ ApplyIdle
    /\ GatewayIdle
    /\ threads \in 1..MaxThreads
    /\ UploadIdle
    /\ LibIdle
    /\ AuxIdle
    /\ ExtIdle

SpecUpload == UInit /\ [][UNext]_vars

\* the event loop runs a task that can run, and every call returns or raises
SpecUploadLive == UInit /\ [][UNextPlain]_vars /\ WF_vars(UNextPlain)

C12_BatchIsolation ==
    \A c \in Cands :
        (mpc = "sleep" /\ cand[c].pc = "failed")
          => \A d \in Tasks \ {c} :
                /\ cand[d].pc \in Terminal
                /\ cand[d].pc = "ok" => (results[d] = cand[d].key /\ results[d] # 0)

C12_Witness ==
    /\ mpc = "sleep"
    /\ doneQ = <<>>
    /\ upload_error_count = 1
    /\ cand[1].pc = "failed"
    /\ calls[1] = {"findByHash", "getUploadToken", "uploadBytes"}
    /\ cand[2].pc = "ok"
    /\ results[2] = NewKey(2)
    /\ results[1] = 0

\* C19: at no instant more than threads candidates are between their first
\* step and their terminal state, and each of them holds one unit of the
\* semaphore from its first step to its terminal state.
C19_BoundedParallelism ==
    LET inFlight == {c \in Cands : cand[c].pc \in Holding} IN
       /\ Cardinality(inFlight) <= threads
       /\ mpc = "gather" => sem = threads - Cardinality(inFlight)

C19_Witness ==
    /\ threads < NumCands
    /\ Cardinality({c \in Cands : cand[c].pc \in Holding}) = threads
    /\ sem = 0
    /\ \E c \in Cands : cand[c].pc = "commit"
    /\ \E c \in Cands : cand[c].pc = "queued"
    /\ ~sem_free(sem)

\* C20: the refresh of the mirror is triggered, and the results of the
\* batch are final, only once every candidate of the batch is in a terminal
\* state and its task has been awaited.
C20_RefreshAfterAllTerminal ==
    (mpc = "sleep" \/ cycles > 0)
      => /\ \A c \in Tasks : cand[c].pc \in Terminal
         /\ Awaited = Tasks
         /\ \A c \in Cands : results[c] = (IF cand[c].pc = "ok" THEN cand[c].key ELSE 0)
         /\ cycles = (IF \E c \in Cands : cand[c].pc = "ok" THEN 1 ELSE 0)

C20_Witness ==
    /\ cycles = 1
    /\ mpc = "sleep"
    /\ \A c \in Cands : cand[c].pc \in Terminal
    /\ \E c \in Cands : cand[c].pc = "ok" /\ results[c] = NewKey(c)
    /\ \E c \in Cands : cand[c].pc # "ok"

\* C21: after a batch upload_monitor has called update_cache exactly once
\* if at least one candidate of the batch succeeded, and not at all if none
\* succeeded.
C21_OneCycleIffSuccess ==
    mpc = "sleep"
      => /\ cycles \in {0, 1}
         /\ cycles = 1 <=> \E c \in Cands : cand[c].pc = "ok"

C21_Witness ==
    /\ mpc = "sleep"
    /\ cycles = 0
    /\ upload_error_count = NumCands
    /\ \A c \in Cands : cand[c].pc = "failed" /\ "commitUpload" \in calls[c]

\* C22: once shutdown_event is set, a candidate that had not issued a
\* gateway call issues none, a candidate that had issued getUploadToken or
\* uploadBytes is not cancelled, and a candidate whose uploadBytes returned
\* has issued its commitUpload.
C22_UploadCancellation ==
    \A c \in Cands :
        /\ atCancel[c] \in {"queued", "slot", "hashing"} => calls[c] = {}
        /\ atCancel[c] \in {"token", "upload"} => cand[c].pc # "cancelled"
        /\ cand[c].pc = "cancelled" => calls[c] = {}
        /\ ("uploadBytes" \in calls[c] /\ cand[c].pc \in Terminal
            /\ "commitUpload" \notin calls[c]) => cand[c].pc = "failed"

C22_Witness ==
    /\ shutdown
    /\ \E c \in Cands :
          /\ atCancel[c] = "hashing"
          /\ cand[c].pc = "cancelled"
          /\ calls[c] = {}
    /\ \E c \in Cands :
          /\ atCancel[c] = "token"
          /\ cand[c].pc = "ok"
          /\ "commitUpload" \in calls[c]
          /\ results[c] = NewKey(c)

\* C29: when a batch has finished every candidate is accounted for exactly
\* once: in results, or in upload_error_count, or cancelled; the count is the
\* number of the candidates that failed.
C29_EveryCandidateAccountedOnce ==
    mpc = "sleep"
      => LET inMap == {c \in Cands : results[c] # 0}
             failed == {c \in Cands : cand[c].pc = "failed"}
             cancelled == {c \in Cands : cand[c].pc = "cancelled"}
         IN  /\ upload_error_count = Cardinality(failed)
             /\ inMap \cap failed = {}
             /\ inMap \cap cancelled = {}
             /\ inMap \cup failed \cup cancelled = Tasks
             /\ Cardinality(inMap) + upload_error_count + Cardinality(cancelled)
                  = Cardinality(Tasks)

C29_Witness ==
    /\ mpc = "sleep"
    /\ threads = 1
    /\ upload_error_count = 1
    /\ \E c \in Cands : results[c] = DupKey(c)
    /\ \E c \in Cands : cand[c].pc = "failed" /\ results[c] = 0

\* candidate c issues the gateway operation op in this step
IssuedNow(c, op) == op \in calls'[c] /\ op \notin calls[c]

\* C32: per candidate the steps findByHash, getUploadToken, uploadBytes,
\* commitUpload are issued in this order, each only when the step before it
\* has returned without an exception (getUploadToken only when the lookup
\* found nothing); commitUpload is issued at most once per candidate, and the
\* media key recorded for an uploaded candidate is the one its commit
\* returned.
C32_StepOrder ==
    [][\A c \in Cands :
          /\ IssuedNow(c, "findByHash")
                => cand[c].pc = "hashing" /\ calls[c] = {}
          /\ IssuedNow(c, "getUploadToken")
                => /\ cand[c].pc = "lookup" /\ cand'[c].pc = "token"
                   /\ cand'[c].found = 0
                   /\ calls[c] = {"findByHash"}
          /\ IssuedNow(c, "uploadBytes")
                => /\ cand[c].pc = "token" /\ cand'[c].pc = "upload"
                   /\ calls[c] = {"findByHash", "getUploadToken"}
          /\ IssuedNow(c, "commitUpload")
                => /\ cand[c].pc = "upload" /\ cand'[c].pc = "commit"
                   /\ calls[c] = {"findByHash", "getUploadToken", "uploadBytes"}
          /\ (cand'[c].pc = "commit" /\ cand[c].pc # "commit")
                => IssuedNow(c, "commitUpload")
          /\ (cand[c].pc = "commit" /\ cand'[c].pc = "ok")
                => cand'[c].key = NewKey(c)
          /\ (cand[c].pc = "ok" /\ "commitUpload" \in calls[c] /\ results'[c] # 0)
                => results'[c] = NewKey(c)]_vars

C32_Witness ==
    \E c \in Cands :
        /\ cand[c].pc = "ok"
        /\ cand[c].found = 0
        /\ calls[c] = {"findByHash", "getUploadToken", "uploadBytes", "commitUpload"}
        /\ cand[c].key = NewKey(c)
        /\ results[c] = NewKey(c)

\* C35: the file of every candidate that has ended as a duplicate, as
\* uploaded and committed, or as failed is no longer in the scanned
\* directory, so that the next scan does not select it again.
C35_TerminalFileLeavesDirectory ==
    \A c \in Cands :
        cand[c].pc \in {"ok", "failed"} => c \notin files_to_be_upload

\* C39: for every worker count, when every call returns or raises, every
\* candidate of a batch reaches a terminal state and gives its slot back on
\* every exit path, and the loop over the tasks ends with no candidate left
\* waiting for a slot.
C39_BatchTerminates ==
    (mpc = "gather")
        ~> (/\ mpc = "sleep"
            /\ \A c \in Tasks : cand[c].pc \in Terminal
            /\ sem = threads)

C39_Witness ==
    /\ mpc = "sleep"
    /\ threads < NumCands
    /\ sem = threads
    /\ \E c \in Tasks : cand[c].pc = "ok"
    /\ \E c \in Tasks : cand[c].pc = "failed"
    /\ \A c \in Cands : c \in Tasks /\ cand[c].pc \in Terminal

\* --------------------------------- two files with the same content
\* The batch with a library that holds what this client committed and
\* nothing else; files may have the same content.
SameOrNext ==
    {f \in [Cands -> Hashes] :
        /\ f[1] = 1
        /\ \A c \in Cands \ {1} : f[c] \in {f[c - 1], f[c - 1] + 1}}

RInit ==
    /\ SyncIdle
    /\ ApplyIdle
    /\ GatewayIdle
    /\ threads \in 1..MaxThreads
    /\ UploadIdle
    /\ chash \in SameOrNext
    /\ lib = [h \in Hashes |-> 0]
    /\ AuxIdle
    /\ ExtIdle

SpecRace == RInit /\ [][UNextPlain]_vars

\* C33: nothing serializes the lookup and the commit of two candidates with
\* the same content hash. With one worker slot a candidate whose content an
\* earlier candidate of the batch has committed is resolved as a duplicate of
\* it; with two or more slots both can find nothing and both upload and
\* commit (the state C33_Witness).
C33_OneSlotResolvesDuplicate ==
    threads = 1
      => \A c \in Cands : \A d \in Cands \ {c} :
            (/\ chash[c] = chash[d]
             /\ cand[c].pc = "ok" /\ cand[c].found = 0
             /\ cand[d].pc = "ok")
               => /\ cand[d].found = NewKey(c)
                  /\ cand[d].key = NewKey(c)
                  /\ calls[d] = {"findByHash"}

C33_Witness ==
    /\ threads >= 2
    /\ \E c \in Cands : \E d \in Cands \ {c} :
          /\ chash[c] = chash[d]
          /\ cand[c].found = 0 /\ cand[d].found = 0
          /\ "uploadBytes" \in calls[c] /\ "uploadBytes" \in calls[d]
          /\ cand[c].pc = "ok" /\ cand[c].key = NewKey(c)
          /\ cand[d].pc = "ok" /\ cand[d].key = NewKey(d)

\* ------------------------------------------ sync engine, further claims
\* C23: after a cycle has found shutdown_event set it issues no further
\* get_library_state and no further get_library_page in that cycle.
C23_NoFetchAfterObserved ==
    [][observed => ~(/\ pc \in {"init_fetch", "upd_fetch", "loop"}
                     /\ pc' \in {"init_tokens", "upd_tokens", "page_tokens"})]_vars

\* the items and the deletions of a parsed response are in the mirror m
PageApplied(m, p) ==
    /\ \A k \in Range(p.media_keys_to_delete) : m[k] = NoRec
    /\ \A i \in 1..Len(p.remote_media) :
          LET k == p.remote_media[i].media_key IN
             \/ k \in Range(p.media_keys_to_delete)
             \/ \E j \in i..Len(p.remote_media) :
                   /\ p.remote_media[j].media_key = k
                   /\ m[k] = p.remote_media[j].content_version

C26_CursorPersistedPerPage ==
    applied = "page"
      => /\ row.page_token = appliedCur[2]
         /\ pc = "loop" => (row.page_token = next_page_token /\ row.page_token # 0)

C26_Witness ==
    /\ applied = "page"
    /\ pc = "loop"
    /\ phase = "upd_pages"
    /\ row.page_token = 2
    /\ row.init_complete

\* ------------------------------------------------ store, further claims
\* C27: delete(media_keys) removes exactly the records whose key is in the
\* list and leaves the other records and the cursor row as they are; with
\* keys that have no record, or with an empty list, it changes nothing and
\* raises nothing.
C27_DeleteMissingKeyIsNoOp ==
    spc = "applied"
        => LET p == parse_db_update(sraw)
               m1 == update(sbefore, p.remote_media)
               keys == Range(p.media_keys_to_delete)
           IN  /\ row = NoRow
               /\ \A k \in Keys : mirror[k] = IF k \in keys THEN NoRec ELSE m1[k]
               /\ (\A k \in keys : m1[k] = NoRec) => mirror = m1

C27_Witness ==
    /\ spc = "applied"
    /\ LET p == parse_db_update(sraw)
           m1 == update(sbefore, p.remote_media)
           keys == Range(p.media_keys_to_delete)
       IN  /\ \E k \in keys : m1[k] = NoRec
           /\ \E k \in Keys \ keys : m1[k] # NoRec /\ mirror[k] = m1[k]

\* ----------------------------------------- duplicate query (db.py, 262-296)
\* Rows of remote_media are written by AsyncStorage.update from parsed
\* items, whose dedup_key is always a string; no row has a NULL dedup_key.
otherAuxVars == <<syncVarsNoAux, shutdown, gatewayVars, uploadVars, extVars>>

Present(t) == {k \in Keys : t[k] # NoMedia}

\* PARTITION BY file_name, size_bytes
same_group(t, j, k) ==
    t[j].file_name = t[k].file_name /\ t[j].size_bytes = t[k].size_bytes

\* ROW_NUMBER() over the partition in descending order of media_key
row_number_desc(t, k) ==
    Cardinality({j \in Present(t) : same_group(t, j, k) /\ j >= k})

\* ROW_NUMBER() OVER (PARTITION BY file_name, size_bytes ORDER BY media_key)
row_number(t, k) ==
    Cardinality({j \in Present(t) : same_group(t, j, k) /\ j <= k})

\* SELECT dedup_key FROM duplicates WHERE rk > 1: the rows returned, counted
\* per dedup key
get_duplicate_files_by_name_and_size(t) ==
    [d \in DedupKeys |->
        Cardinality({k \in Present(t) : row_number(t, k) > 1 /\ t[k].dedup_key = d})]

\* AsyncStorage.update of one item
DUpdate ==
    /\ \E k \in Keys, r \in MediaRows : dtable' = [dtable EXCEPT ![k] = r]
    /\ dpc' = "stale"
    /\ dres' = [d \in DedupKeys |-> 0]
    /\ UNCHANGED <<writerVars, counterVars, otherAuxVars>>

\* AsyncStorage.delete of one key
DDelete ==
    /\ \E k \in Keys : dtable' = [dtable EXCEPT ![k] = NoMedia]
    /\ dpc' = "stale"
    /\ dres' = [d \in DedupKeys |-> 0]
    /\ UNCHANGED <<writerVars, counterVars, otherAuxVars>>

\* GPhoto.get_duplicates
GetDuplicates ==
    /\ dpc = "stale"
    /\ dres' = get_duplicate_files_by_name_and_size(dtable)
    /\ dpc' = "fresh"
    /\ UNCHANGED <<dtable, writerVars, counterVars, otherAuxVars>>

DNext == DUpdate \/ DDelete \/ GetDuplicates

SpecDup == SInit /\ [][DNext]_vars

Group(t, k) == {j \in Present(t) : same_group(t, j, k)}

MinKey(G) == CHOOSE m \in G : \A j \in G : m <= j

RECURSIVE SumOver(_, _)
SumOver(f, D) ==
    IF D = {} THEN 0
    ELSE LET d == CHOOSE x \in D : TRUE IN f[d] + SumOver(f, D \ {d})

nonWriterVars == <<localVars, shutdown, histVars, applyVars, gatewayVars,
                   uploadVars, dupVars, counterVars, extVars>>

\* update_cache is called
WStart(w) ==
    /\ wpc[w] = "idle"
    /\ wpc' = [wpc EXCEPT ![w] = "get_init_state"]
    /\ UNCHANGED <<storeVars, remoteVars, wst, wparsed, nonWriterVars>>

\* storage.get_init_state() and the branch on it
WGetInitState(w) ==
    /\ wpc[w] = "get_init_state"
    /\ get_init_state(row)
    /\ row' = get_init_state_row(row)
    /\ wpc' = [wpc EXCEPT ![w] = "upd_get_tokens"]
    /\ UNCHANGED <<mirror, remoteVars, wst, wparsed, nonWriterVars>>

\* _cache_update: state_token, _ = storage.get_state_tokens()
WGetTokens(w) ==
    /\ wpc[w] = "upd_get_tokens"
    /\ wst' = [wst EXCEPT ![w] = get_state_tokens(row)[1]]
    /\ wpc' = [wpc EXCEPT ![w] = "upd_fetch"]
    /\ UNCHANGED <<storeVars, remoteVars, wparsed, nonWriterVars>>

\* _cache_update: get_library_state(state_token) and parse_db_update
WFetch(w) ==
    /\ wpc[w] = "upd_fetch"
    /\ wparsed' = [wparsed EXCEPT ![w] = parse_db_update(remoteTop[wst[w]])]
    /\ wpc' = [wpc EXCEPT ![w] = "upd_store"]
    /\ UNCHANGED <<storeVars, remoteVars, wst, nonWriterVars>>

\* update_cache returns
WReturn(w) ==
    /\ wpc' = [wpc EXCEPT ![w] = "idle"]
    /\ wst' = [wst EXCEPT ![w] = 0]
    /\ wparsed' = [wparsed EXCEPT ![w] = NoParsed]

\* _cache_update: the storage block of the top-level response, then the
\* pagination branch
WStore(w) ==
    /\ wpc[w] = "upd_store"
    /\ row' = update_state_tokens(row, wparsed[w].state_token,
                                  wparsed[w].next_page_token)
    /\ mirror' = apply_page(mirror, wparsed[w])
    /\ IF wparsed[w].next_page_token # 0
       THEN /\ wpc' = [wpc EXCEPT ![w] = "loop"]
            /\ UNCHANGED <<wst, wparsed>>
       ELSE WReturn(w)
    /\ UNCHANGED <<remoteVars, nonWriterVars>>

\* _process_pages: the loop head, get_library_page and parse_db_update
WPageFetch(w) ==
    /\ wpc[w] = "loop"
    /\ IF shutdown
       THEN WReturn(w)
       ELSE /\ wparsed' = [wparsed EXCEPT ![w] =
                  parse_db_update(remotePage[wparsed[w].next_page_token])]
            /\ wpc' = [wpc EXCEPT ![w] = "page_store"]
            /\ UNCHANGED wst
    /\ UNCHANGED <<storeVars, remoteVars, nonWriterVars>>

\* _process_pages: the storage block of the page, then the break or the
\* next turn
WPageStore(w) ==
    /\ wpc[w] = "page_store"
    /\ row' = update_state_tokens(row, None, wparsed[w].next_page_token)
    /\ mirror' = apply_page(mirror, wparsed[w])
    /\ IF wparsed[w].next_page_token # 0
       THEN /\ wpc' = [wpc EXCEPT ![w] = "loop"]
            /\ UNCHANGED <<wst, wparsed>>
       ELSE WReturn(w)
    /\ UNCHANGED <<remoteVars, nonWriterVars>>

WNext ==
    \E w \in Writers :
        \/ WStart(w)
        \/ WGetInitState(w)
        \/ WGetTokens(w)
        \/ WFetch(w)
        \/ WStore(w)
        \/ WPageFetch(w)
        \/ WPageStore(w)

\* the state after a completed initial listing of a remote that answers as
\* in Init
WInit ==
    /\ mirror \in {EmptyMirror, [EmptyMirror EXCEPT ![KeyA] = 1]}
    /\ row = [exists |-> TRUE, state_token |-> 1, page_token |-> 0,
              init_complete |-> TRUE]
    /\ remoteTop \in {f \in [StateToks -> UNION {TopChoices(s) : s \in StateToks}] :
                        \A s \in StateToks : f[s] \in TopChoices(s)}
    /\ remotePage \in {f \in [1..MaxPageTok -> UNION {PageChoices(p) : p \in 1..MaxPageTok}] :
                        \A p \in 1..MaxPageTok : f[p] \in PageChoices(p)}
    /\ pc = "idle"
    /\ phase = "none"
    /\ state_token = 0
    /\ next_page_token = 0
    /\ parsed = NoParsed
    /\ shutdown = FALSE
    /\ last = "none"
    /\ startPageTok = 0
    /\ firstFetch = NoReq
    /\ failedReq = NoReq
    /\ retryReq = NoReq
    /\ interrupted = "no"
    /\ rerun = FALSE
    /\ startedFresh = FALSE
    /\ appliedCur = <<0, 0>>
    /\ initListed = FALSE
    /\ applied = "none"
    /\ observed = FALSE
    /\ ApplyIdle
    /\ GatewayIdle
    /\ threads = 1
    /\ UploadIdle
    /\ LibIdle
    /\ AuxIdle
    /\ ExtIdle

SpecReentrant == WInit /\ [][WNext]_vars

\* C24: for one user at most one update_cache is running at any time.
C24_OneCycleInFlight ==
    Cardinality({w \in Writers : wpc[w] # "idle"}) <= 1

\* --------------------- the counters of update_cache (client.py, 433-481)
\* One GPhoto object calls update_cache again and again; a response that is
\* applied adds the lengths of its lists to the fields of the progress task.
nonCounterVars == <<syncVarsNoAux, shutdown, gatewayVars, uploadVars, dupVars,
                    writerVars, extVars>>

\* update_cache is called: the task is created with updated=0, deleted=0
\* when progress has no task, otherwise the first task is taken as it is
CStart ==
    /\ cpc \in {"idle", "aborted"}
    /\ cpc' = "running"
    /\ has_task' = TRUE
    /\ updated' = IF has_task THEN updated ELSE 0
    /\ deleted' = IF has_task THEN deleted ELSE 0
    /\ sinceUpdated' = IF cpc = "idle" THEN 0 ELSE sinceUpdated
    /\ sinceDeleted' = IF cpc = "idle" THEN 0 ELSE sinceDeleted
    /\ UNCHANGED <<exposed, nonCounterVars>>

\* a response was stored: progress.update(updated=... + len(remote_media),
\* deleted=... + len(media_keys_to_delete))
CApply ==
    /\ cpc = "running"
    /\ \E nu \in 0..MaxItems, nd \in 0..MaxDels :
          /\ updated + nu <= MaxCount
          /\ deleted + nd <= MaxCount
          /\ updated' = updated + nu
          /\ deleted' = deleted + nd
          /\ sinceUpdated' = sinceUpdated + nu
          /\ sinceDeleted' = sinceDeleted + nd
    /\ UNCHANGED <<cpc, has_task, exposed, nonCounterVars>>

\* _cache_update returned: update_cache reads the fields and logs them
CEnd ==
    /\ cpc = "running"
    /\ exposed' = [updated |-> updated, deleted |-> deleted]
    /\ cpc' = "idle"
    /\ UNCHANGED <<has_task, updated, deleted, sinceUpdated, sinceDeleted,
                   nonCounterVars>>

\* an exception leaves update_cache (_cache_init, get_library_state)
CAbort ==
    /\ cpc = "running"
    /\ cpc' = "aborted"
    /\ UNCHANGED <<has_task, updated, deleted, exposed, sinceUpdated,
                   sinceDeleted, nonCounterVars>>

CNext == CStart \/ CApply \/ CEnd \/ CAbort

SpecCounters == SInit /\ [][CNext]_vars

\* C30: the counters a cycle exposes are the numbers of the items upserted
\* and of the keys deleted since the last cycle that completed.
C30_CountersSinceLastCycle ==
    (cpc = "idle" /\ has_task)
      => exposed = [updated |-> sinceUpdated, deleted |-> sinceDeleted]

\* ---------------------------------------- the cursor row, further claims
\* C36: once the stored state token of the user is not "", no step of a sync
\* cycle sets it back to "": a top-level response without state token leaves
\* the stored state token as it is.
C36_StateTokenNeverReset ==
    [][row.state_token # 0 => row'.state_token # 0]_vars

\* C37: the row of the user exists at every cursor write of a cycle
\* (get_init_state created it), and get_state_tokens after the write
\* returns what was written: update_state_tokens(s, p) gives (s, p), and
\* with the state token left as None the stored state token stays.
C37_CursorRoundTrip ==
    [][/\ (pc = "init_tokens" /\ pc' = "init_update")
            => /\ row.exists
               /\ get_state_tokens(row') = <<state_token, next_page_token>>
       /\ (pc = "upd_tokens" /\ pc' = "upd_update")
            => /\ row.exists
               /\ get_state_tokens(row') = <<parsed.state_token, next_page_token>>
       /\ (pc = "page_tokens" /\ pc' = "page_update")
            => /\ row.exists
               /\ get_state_tokens(row')
                    = <<get_state_tokens(row)[1], next_page_token>>
       /\ (pc \in {"init_tokens", "upd_tokens", "page_tokens"}
             /\ pc' \in {"init_update", "upd_update", "page_update"})
            => row'.init_complete = row.init_complete]_vars

C37_Witness ==
    /\ pc = "page_update"
    /\ row.exists
    /\ row.state_token # 0
    /\ row.page_token # 0
    /\ row.page_token = next_page_token
    /\ row.page_token # appliedCur[2]

\* ------------------------------------ AsyncStorage.search (db.py, 184-242)
\* One table remote_media, as _create_tables creates it: it has the columns
\* size_bytes, utc_timestamp and file_name and no column parsed_name.
nonSearchVars == <<syncVarsNoAux, shutdown, gatewayVars, uploadVars, dupVars,
                   writerVars, counterVars, chunkVars, userVars>>

\* Python truth value of an int | None argument
truthy_int(x) == x # None /\ x # 0

\* Python truth value of a str | None argument
truthy_str(x) == x # NoneStr /\ x # ""

Stored(t) == {k \in Keys : t[k] # NoFound}

\* WHERE size_bytes = $1 AND (utc_timestamp / 1000)::BIGINT BETWEEN $2 - 1
\* AND $2 + 1
by_size_and_time(t, size, ts) ==
    {k \in Stored(t) : /\ t[k].size_bytes = size
                       /\ (t[k].utc_timestamp \div 1000) >= ts - 1
                       /\ (t[k].utc_timestamp \div 1000) <= ts + 1}

\* WHERE size_bytes = $1
by_size(t, size) == {k \in Stored(t) : t[k].size_bytes = size}

\* WHERE file_name = $1
by_file_name(t, name) == {k \in Stored(t) : t[k].file_name = name}

Rows(K) == {[kind |-> "row", key |-> k] : k \in K}

\* AsyncStorage.search: the results the call can end with (LIMIT 1 without
\* ORDER BY returns any of the rows that match). The query on parsed_name
\* names a column the table does not have: the statement raises.
search(t, a) ==
    IF /\ truthy_int(a.size_bytes) /\ truthy_int(a.utc_timestamp)
       /\ by_size_and_time(t, a.size_bytes, a.utc_timestamp) # {}
    THEN Rows(by_size_and_time(t, a.size_bytes, a.utc_timestamp))
    ELSE IF truthy_int(a.size_bytes) /\ by_size(t, a.size_bytes) # {}
    THEN Rows(by_size(t, a.size_bytes))
    ELSE IF truthy_str(a.file_name) /\ by_file_name(t, a.file_name) # {}
    THEN Rows(by_file_name(t, a.file_name))
    ELSE IF truthy_str(a.parsed_name)
    THEN {[kind |-> "raise", key |-> 0]}
    ELSE {[kind |-> "none", key |-> 0]}

\* GPhoto.search_media
SearchMedia ==
    /\ qres.kind = "pending"
    /\ \E a \in SearchArgs :
          /\ qargs' = a
          /\ qres' \in search(qtable, a)
    /\ UNCHANGED <<qtable, nonSearchVars>>

\* the caller has the result and may search again
SearchReturn ==
    /\ qres.kind # "pending"
    /\ qres' = NoResult
    /\ qargs' = NoArgs
    /\ UNCHANGED <<qtable, nonSearchVars>>

QNext == SearchMedia \/ SearchReturn

\* any table of media records
QInit ==
    /\ SyncIdle
    /\ ApplyIdle
    /\ GatewayIdle
    /\ threads = 1
    /\ UploadIdle
    /\ LibIdle
    /\ AuxIdle
    /\ qtable \in [Keys -> FoundRows \cup {NoFound}]
    /\ qargs = NoArgs
    /\ qres = NoResult
    /\ ChunkIdle
    /\ UsersIdle

SpecSearch == QInit /\ [][QNext]_vars

\* records at most 1 second from ts seconds, with the size given
MatchSizeTime(t, a) ==
    {k \in Stored(t) : /\ t[k].size_bytes = a.size_bytes
                       /\ t[k].utc_timestamp >= (a.utc_timestamp - 1) * 1000
                       /\ t[k].utc_timestamp <= (a.utc_timestamp + 1) * 1000}

MatchSize(t, a) == {k \in Stored(t) : t[k].size_bytes = a.size_bytes}

MatchFileName(t, a) == {k \in Stored(t) : t[k].file_name = a.file_name}

\* the records the search may return: those of the first criterion in the
\* priority order that is supplied and that some record matches (no record
\* has a parsed name)
Expected(t, a) ==
    IF a.size_bytes # None /\ a.utc_timestamp # None /\ MatchSizeTime(t, a) # {}
    THEN MatchSizeTime(t, a)
    ELSE IF a.size_bytes # None /\ MatchSize(t, a) # {}
    THEN MatchSize(t, a)
    ELSE IF a.file_name # NoneStr /\ MatchFileName(t, a) # {}
    THEN MatchFileName(t, a)
    ELSE {}

\* C31: search returns a record that matches the first criterion, in the
\* order size_bytes + utc_timestamp (within 1 second), size_bytes, file_name,
\* parsed_name, that is supplied and that some record matches, and None only
\* when no supplied criterion matches a record.
C31_SearchPriority ==
    qres.kind # "pending"
        => IF Expected(qtable, qargs) = {}
           THEN qres.kind = "none"
           ELSE qres.kind = "row" /\ qres.key \in Expected(qtable, qargs)

\* ------------- reading a file in chunks (hash_handler.py 30-45, client.py 83-92)
\* One task of _upload_file: calculate_sha1_hash reads the file chunk by
\* chunk, then _file_stream reads it again for upload_file.
nonChunkVars == <<syncVarsNoAux, gatewayVars, uploadVars, dupVars, writerVars,
                  counterVars, searchVars, userVars>>

\* while True: chunk = await file.read(...); if not chunk: break. The loop
\* has read pos of len chunks; nothing else ends it.
read_chunk(pos, len) == IF pos < len THEN pos + 1 ELSE pos

\* the first check of shutdown_event passed: calculate_sha1_hash opens the
\* file
HashStart ==
    /\ hpc = "idle"
    /\ ~shutdown
    /\ hlen' \in 1..MaxChunks
    /\ hpc' = "hashing"
    /\ hpos' = 0
    /\ hafter' = 0
    /\ UNCHANGED <<shutdown, nonChunkVars>>

\* one round of the loop of calculate_sha1_hash
HashRead ==
    /\ hpc = "hashing"
    /\ hpos' = read_chunk(hpos, hlen)
    /\ hpc' = IF hpos' = hpos THEN "hashed" ELSE "hashing"
    /\ hafter' = IF shutdown /\ hpos' # hpos THEN hafter + 1 ELSE hafter
    /\ UNCHANGED <<hlen, shutdown, nonChunkVars>>

\* the second check of shutdown_event; the lookup found nothing and the
\* upload token is there: upload_file starts to iterate _file_stream
StreamStart ==
    /\ hpc = "hashed"
    /\ hpc' = IF shutdown THEN "cancelled" ELSE "streaming"
    /\ hpos' = 0
    /\ hafter' = 0
    /\ UNCHANGED <<hlen, shutdown, nonChunkVars>>

\* one round of the loop of _file_stream
StreamRead ==
    /\ hpc = "streaming"
    /\ hpos' = read_chunk(hpos, hlen)
    /\ hpc' = IF hpos' = hpos THEN "done" ELSE "streaming"
    /\ hafter' = IF shutdown /\ hpos' # hpos THEN hafter + 1 ELSE hafter
    /\ UNCHANGED <<hlen, shutdown, nonChunkVars>>

\* shutdown_event.set()
HCancel ==
    /\ ~shutdown
    /\ shutdown' = TRUE
    /\ UNCHANGED <<chunkVars, nonChunkVars>>

\* the task has ended; the next file
HNextFile ==
    /\ hpc \in {"done", "cancelled"}
    /\ hpc' = "idle"
    /\ hlen' = 0
    /\ hpos' = 0
    /\ hafter' = 0
    /\ UNCHANGED <<shutdown, nonChunkVars>>

HNext == HashStart \/ HashRead \/ StreamStart \/ StreamRead \/ HCancel \/ HNextFile

SpecChunks == SInit /\ [][HNext]_vars

\* C34: once shutdown_event is set while a file is hashed or streamed, the
\* loop reads at most one further chunk of the file.
C34_StopsAtChunkBoundary == hafter <= 1

\* ------------------------- table state with two users (db.py, 133-182)
\* Two GPhoto objects, one per user, run update_cache against the same
\* table state; the tokens they write are those of any responses.
nonUserVars == <<syncVarsNoAux, shutdown, gatewayVars, uploadVars, dupVars,
                 writerVars, counterVars, searchVars, chunkVars>>

\* a statement without WHERE clause
where_user_name_missing(r, u) == TRUE

\* WHERE user_name = $n with self.user, and the column user_name of the row
\* that get_init_state inserts
where_user_name(r, u) == r = u

\* update_cache of user u starts
UStart(u) ==
    /\ upc[u] = "idle"
    /\ upc' = [upc EXCEPT ![u] = "get_init_state"]
    /\ UNCHANGED <<utable, nonUserVars>>

\* storage.get_init_state() of AsyncStorage(u)
UGetInitState(u) ==
    /\ upc[u] = "get_init_state"
    /\ utable' = [r \in Users |-> IF where_user_name(r, u)
                                  THEN get_init_state_row(utable[r])
                                  ELSE utable[r]]
    /\ upc' = [upc EXCEPT ![u] = IF get_init_state(utable[u])
                                 THEN "update" ELSE "init"]
    /\ UNCHANGED nonUserVars

\* storage.update_state_tokens(...) of AsyncStorage(u): both tokens of a
\* top-level response, or the page token of a page
UUpdateStateTokens(u) ==
    /\ upc[u] \in {"init", "update"}
    /\ \E s \in StateToks \cup {None}, p \in PageToks :
          utable' = [r \in Users |-> IF where_user_name(r, u)
                                     THEN update_state_tokens(utable[r], s, p)
                                     ELSE utable[r]]
    /\ UNCHANGED <<upc, nonUserVars>>

\* storage.set_init_state(1) of AsyncStorage(u) after _cache_init
USetInitState(u) ==
    /\ upc[u] = "init"
    /\ utable' = [r \in Users |-> IF where_user_name(r, u)
                                  THEN set_init_state(utable[r], TRUE)
                                  ELSE utable[r]]
    /\ upc' = [upc EXCEPT ![u] = "update"]
    /\ UNCHANGED nonUserVars

\* update_cache of user u returns, or ends with an exception
UEnd(u) ==
    /\ upc[u] \in {"init", "update"}
    /\ upc' = [upc EXCEPT ![u] = "idle"]
    /\ UNCHANGED <<utable, nonUserVars>>

UStep(u) ==
    \/ UStart(u)
    \/ UGetInitState(u)
    \/ UUpdateStateTokens(u)
    \/ USetInitState(u)
    \/ UEnd(u)

UsNext == \E u \in Users : UStep(u)

SpecUsers == SInit /\ [][UsNext]_vars

\* C38: a step of the sync cycle of user X leaves the state token, the page
\* token and init_complete of every other user Y as they are, however the
\* cycles of X and Y interleave.
C38_OtherUsersUnchanged ==
    [][\A u \in Users :
          UStep(u) => \A y \in Users \ {u} : utable'[y] = utable[y]]_vars

C38_Witness ==
    /\ upc["x"] = "update"
    /\ upc["y"] = "init"
    /\ utable["x"].init_complete
    /\ utable["x"].state_token # 0
    /\ utable["y"].exists
    /\ ~utable["y"].init_complete
    /\ utable["y"].page_token # 0
    /\ utable["y"].state_token # utable["x"].state_token

====
